---- MODULE Spec2Model ----
(***************************************************************************)
(* Contacts API (FastAPI + SQLAlchemy + Redis): the authentication/session *)
(* subsystem (users, refresh tokens, JWT access tokens, the Redis          *)
(* blacklist and user cache) and the owner-scoped contact operations.      *)
(*                                                                         *)
(* Every handler is modelled round trip by round trip (one action per     *)
(* await of the database, of Redis or of the mail server), so that         *)
(* requests interleave as coroutines do.  Time is a discrete clock of      *)
(* TicksPerSecond ticks per second, so that the fractional part of         *)
(* datetime.now().timestamp() and the int() truncations of the code are    *)
(* represented.                                                            *)
(***************************************************************************)
EXTENDS Integers, Sequences, FiniteSets, TLC

VARIABLES
    now,             \* wall clock, in ticks
    users,           \* table users: sequence of rows, in the order of insertion
    user_seq,        \* last value of the users.id sequence
    refresh_tokens,  \* table refresh_tokens: sequence of rows, in the order of insertion
    contacts,        \* table contacts: set of rows
    contact_seq,     \* last value of the contacts.id sequence
    redis,           \* Redis: key -> [value, expire_at (tick)]
    jwts,            \* JWTs clients hold (from login responses and e-mails)
    resp,            \* the last request and its response
    advances,        \* number of clock steps taken (bounded by MaxAdvances)
    served,          \* number of requests received
    inflight,        \* requests being served: request -> its position and locals
    cloudinary,      \* Cloudinary: the uploads received, in order
    limits           \* storage of the rate limiter: client address -> window

vars == <<now, users, user_seq, refresh_tokens, contacts, contact_seq, redis, jwts,
          resp, advances, served, inflight, cloudinary, limits>>

----------------------------------------------------------------------------
(* Bounds of the model *)

TicksPerSecond == 3
MaxUsers == 2
MaxTokens == 3
MaxAdvances == 2
MaxContacts == 2
MaxContactTicks == 1
MaxDays == 45
MaxRequests == 2
MaxServed == 4
MaxContactServed == 3
MaxBirthdayServed == 2

(* Program constants *)

ACCESS_TOKEN_EXPIRE_MINUTES == 30
REFRESH_TOKEN_EXPIRE_DAYS == 7
EMAIL_TOKEN_EXPIRE_DAYS == 7
SECRET_KEY == "secret"
RATE_LIMIT == 10            \* @limiter.limit("10/minute") of GET /users/me
RATE_LIMIT_SECONDS == 60

NULL == -1          \* SQL NULL / Python None in an integer column
NoneStr == "None"   \* Python None where a string is expected

\* timedelta(minutes=...), timedelta(days=...) in seconds and in ticks
AccessSeconds == ACCESS_TOKEN_EXPIRE_MINUTES * 60
RefreshTicks == REFRESH_TOKEN_EXPIRE_DAYS * 86400 * TicksPerSecond
EmailSeconds == EMAIL_TOKEN_EXPIRE_DAYS * 86400

----------------------------------------------------------------------------
(* Inputs *)

Usernames == {"alice", "bob@x.com"}
Emails == {"alice@x.com", "bob@x.com"}
Passwords == {"secret1", "secret2"}
RawTokens == 1 .. MaxTokens

ContactEmails == {"c1@x.com", "c2@x.com"}
ContactIds == 1 .. MaxContacts

\* request bodies of POST /contacts/ (ContactCreateSchema)
CreateBodies ==
    {[first_name |-> "Ann", last_name |-> "Lee", email |-> e,
      phone_number |-> "55555", birthday |-> <<1990, 4, 15>>,
      additional_info |-> NoneStr] : e \in ContactEmails}

\* request bodies of PUT /contacts/{id} (ContactUpdateSchema): the fields set
UpdateBodies ==
    {[first_name |-> NoneStr],
     [first_name |-> "Bea", additional_info |-> "vip"]}
    \cup {[email |-> e] : e \in ContactEmails}

----------------------------------------------------------------------------
(* Time helpers *)

\* int(datetime.timestamp()): whole seconds of a tick count
FloorSeconds(t) == t \div TicksPerSecond

\* int(exp - now.timestamp()): Python int() truncates toward zero
IntTrunc(num) ==
    IF num >= 0 THEN num \div TicksPerSecond
    ELSE 0 - ((0 - num) \div TicksPerSecond)

----------------------------------------------------------------------------
(* Responses *)

Response(op, args, status, detail, body) ==
    [op |-> op, args |-> args, status |-> status, detail |-> detail, body |-> body]

HTTPException(status, detail) ==
    [ok |-> FALSE, status |-> status, detail |-> detail]

Ok(value) == [ok |-> TRUE, value |-> value]

----------------------------------------------------------------------------
(* Hashing and JWT (services/auth.py, core/email_token.py) *)

\* bcrypt.hashpw(password, gensalt()): the hash embeds the scheme and the password
_hash_password(password) == <<"bcrypt", password>>

\* bcrypt.checkpw(plain, hashed)
_verify_password(plain_password, hashed_password) ==
    hashed_password = <<"bcrypt", plain_password>>

\* hashlib.sha256(token).hexdigest(): injective on the tokens of the model
_hash_token(token) == <<"sha256", token>>

\* jwt.encode(payload, key): the token is the payload signed with the key
jwt_encode(payload, key) == [payload |-> payload, key |-> key]

\* jwt.decode(token, key): signature, then exp <= now raises ExpiredSignatureError
jwt_decode(token, key, t) ==
    IF token.key # key THEN [ok |-> FALSE]
    ELSE IF token.payload.exp * TicksPerSecond <= t THEN [ok |-> FALSE]
    ELSE [ok |-> TRUE, payload |-> token.payload]

\* payload.get(name)
payload_get(payload, name) ==
    IF name \in DOMAIN payload THEN payload[name] ELSE NoneStr

create_access_token(username, t) ==
    jwt_encode([sub |-> username, exp |-> FloorSeconds(t) + AccessSeconds], SECRET_KEY)

create_email_token(email, t) ==
    jwt_encode([sub |-> email, iat |-> FloorSeconds(t),
                exp |-> FloorSeconds(t) + EmailSeconds], SECRET_KEY)

decode_and_validate_access_token(token, t) ==
    LET d == jwt_decode(token, SECRET_KEY, t)
    IN  IF d.ok THEN Ok(d.payload) ELSE HTTPException(401, "Token wrong")

get_email_from_token(token, t) ==
    LET d == jwt_decode(token, SECRET_KEY, t)
    IN  IF d.ok THEN Ok(d.payload.sub)
        ELSE HTTPException(422, "Invalid email verification token")

\* a token signed with a key that is not the server's
ForgedToken == jwt_encode([sub |-> "alice", exp |-> AccessSeconds], "forged")

----------------------------------------------------------------------------
(* Repositories (repository/user_repository.py, refresh_token_repository.py) *)

\* users: the position of the row selected, 0 stands for None
get_by_username(us, username) ==
    IF \E i \in 1..Len(us) : us[i].username = username
    THEN CHOOSE i \in 1..Len(us) : us[i].username = username
    ELSE 0

get_user_by_email(us, email) ==
    IF \E i \in 1..Len(us) : us[i].email = email
    THEN CHOOSE i \in 1..Len(us) : us[i].email = email
    ELSE 0

\* select(model).where(model.id == _id)
get_by_id(us, id) ==
    IF \E i \in 1..Len(us) : us[i].id = id
    THEN CHOOSE i \in 1..Len(us) : us[i].id = id
    ELSE 0

\* libgravatar: Gravatar(email).get_image() builds a URL from the e-mail
Gravatar(email) == <<"gravatar", email>>

\* mutation: the row is created already confirmed
create_user_confirmed(us, id, username, email, hashed_password, avatar, role) ==
    Append(us, [id |-> id, username |-> username, email |-> email,
                hash_password |-> hashed_password, avatar |-> avatar,
                confirmed |-> TRUE, role |-> role])

\* the row INSERTed; id is the value drawn from the users.id sequence
create_user(us, id, username, email, hashed_password, avatar, role) ==
    Append(us, [id |-> id, username |-> username, email |-> email,
                hash_password |-> hashed_password, avatar |-> avatar,
                confirmed |-> FALSE, role |-> role])

confirmed_email_repo(us, email) ==
    LET i == get_user_by_email(us, email)
    IN  [us EXCEPT ![i].confirmed = TRUE]

\* UserRepository.update_avatar_url
update_avatar_url_repo(us, email, url) ==
    LET i == get_user_by_email(us, email)
    IN  [us EXCEPT ![i].avatar = url]

\* mutation: the UPDATE has no WHERE clause
update_password_all(us, email, hashed_password) ==
    [i \in 1..Len(us) |-> [us[i] EXCEPT !.hash_password = hashed_password]]

update_password(us, email, hashed_password) ==
    LET i == get_user_by_email(us, email)
    IN  IF i = 0 THEN us ELSE [us EXCEPT ![i].hash_password = hashed_password]

\* refresh tokens: 0 stands for None
get_by_token_hash(rts, token_hash) ==
    IF \E i \in 1..Len(rts) : rts[i].token_hash = token_hash
    THEN CHOOSE i \in 1..Len(rts) : rts[i].token_hash = token_hash
    ELSE 0

\* mutation: a token is still active at the instant it expires
get_active_token_inclusive(rts, token_hash, current_time) ==
    IF \E i \in 1..Len(rts) : /\ rts[i].token_hash = token_hash
                              /\ rts[i].expired_at >= current_time
                              /\ rts[i].revoked_at = NULL
    THEN CHOOSE i \in 1..Len(rts) : /\ rts[i].token_hash = token_hash
                                    /\ rts[i].expired_at >= current_time
                                    /\ rts[i].revoked_at = NULL
    ELSE 0

get_active_token(rts, token_hash, current_time) ==
    IF \E i \in 1..Len(rts) : /\ rts[i].token_hash = token_hash
                              /\ rts[i].expired_at > current_time
                              /\ rts[i].revoked_at = NULL
    THEN CHOOSE i \in 1..Len(rts) : /\ rts[i].token_hash = token_hash
                                    /\ rts[i].expired_at > current_time
                                    /\ rts[i].revoked_at = NULL
    ELSE 0

\* mutation: the row's own id is stored as the owner
save_token_wrong_owner(rts, user_id, token_hash, expired_at) ==
    Append(rts, [id |-> Len(rts) + 1, user_id |-> Len(rts) + 1, token_hash |-> token_hash,
                 expired_at |-> expired_at, revoked_at |-> NULL])

save_token(rts, user_id, token_hash, expired_at) ==
    Append(rts, [id |-> Len(rts) + 1, user_id |-> user_id, token_hash |-> token_hash,
                 expired_at |-> expired_at, revoked_at |-> NULL])

\* mutation: the row is deleted instead of marked
revoke_token_delete(rts, i, t) ==
    [k \in 1..(Len(rts) - 1) |-> IF k < i THEN rts[k] ELSE rts[k + 1]]

revoke_token(rts, i, t) == [rts EXCEPT ![i].revoked_at = t]

----------------------------------------------------------------------------
(* Redis (redis.asyncio client) *)

\* a key with a time to live is served until the clock has passed its expiry
\* time (Redis deletes it when now > expire time)
redis_live(r, key, t) == key \in DOMAIN r /\ r[key].expire_at >= t

redis_exists(r, key, t) == redis_live(r, key, t)

\* GET key: <<>> stands for None, <<v>> for the stored value
redis_get(r, key, t) == IF redis_live(r, key, t) THEN <<r[key].value>> ELSE <<>>

\* SETEX key ttl value: Redis rejects ttl <= 0 ("invalid expire time")
redis_setex(r, key, ttl, value, t) ==
    IF ttl <= 0 THEN [ok |-> FALSE, redis |-> r]
    ELSE [ok |-> TRUE,
          redis |-> [k \in DOMAIN r \cup {key} |->
                        IF k = key
                        THEN [value |-> value, expire_at |-> t + ttl * TicksPerSecond]
                        ELSE r[k]]]

bl_key(token) == <<"bl", token>>
user_key(token) == <<"user", token>>

----------------------------------------------------------------------------
(* AuthService (services/auth.py) and cache_user (services/cache_user.py) *)

\* mutation: the password is checked before the confirmation flag
authenticate_password_first(us, username, password) ==
    LET uid == get_by_username(us, username)
    IN  IF uid = 0 THEN HTTPException(401, "Incorrect username or password")
        ELSE IF ~_verify_password(password, us[uid].hash_password)
             THEN HTTPException(401, "Incorrect username or password")
        ELSE IF ~us[uid].confirmed THEN HTTPException(401, "Email address not confirmed")
        ELSE Ok(uid)

\* mutation: the password is not checked
authenticate_skip_password(us, username, password) ==
    LET uid == get_by_username(us, username)
    IN  IF uid = 0 THEN HTTPException(401, "Incorrect username or password")
        ELSE IF ~us[uid].confirmed THEN HTTPException(401, "Email address not confirmed")
        ELSE Ok(uid)

authenticate(us, username, password) ==
    LET uid == get_by_username(us, username)
    IN  IF uid = 0 THEN HTTPException(401, "Incorrect username or password")
        ELSE IF ~us[uid].confirmed THEN HTTPException(401, "Email address not confirmed")
        ELSE IF ~_verify_password(password, us[uid].hash_password)
             THEN HTTPException(401, "Incorrect username or password")
        ELSE Ok(uid)

\* seq is the last value of the users.id sequence
register_user(us, seq, username, email, password) ==
    IF get_by_username(us, username) # 0 THEN HTTPException(409, "User already exists")
    ELSE IF get_user_by_email(us, email) # 0 THEN HTTPException(409, "Email already exists")
    ELSE Ok(create_user(us, seq + 1, username, email, _hash_password(password),
                        Gravatar(email), "user"))

\* secrets.token_urlsafe(32): 256 random bits, a value never drawn before
token_urlsafe(rts) == Len(rts) + 1

\* returns the raw token and the table after save_token
create_refresh_token(rts, user_id, t) ==
    LET token == token_urlsafe(rts)
    IN  [token |-> token,
         refresh_tokens |-> save_token(rts, user_id, _hash_token(token),
                                       t + RefreshTicks)]

\* the dict cache_user stores, json.dumps'ed
user_data(user) ==
    [id |-> user.id, email |-> user.email, username |-> user.username,
     avatar |-> user.avatar, confirmed |-> user.confirmed]

json_dumps(d) == <<"json", d>>
json_loads(str) == str[2]

\* User(**loads(cached_user)): every key of the entry sets the column of its
\* name, and a column the entry does not name is None (<<>> for the hash)
User(d) ==
    LET column(k, none) == IF k \in DOMAIN d THEN d[k] ELSE none
    IN  [id |-> column("id", NoneStr), username |-> column("username", NoneStr),
         email |-> column("email", NoneStr),
         hash_password |-> column("hash_password", <<>>),
         avatar |-> column("avatar", NoneStr),
         confirmed |-> column("confirmed", NoneStr),
         role |-> column("role", NoneStr)]

\* ttl = int(exp - datetime.now().timestamp()); redis.setex(key, ttl, json)
cache_user(r, user, token, exp, t) ==
    LET ttl == IntTrunc(exp * TicksPerSecond - t)
    IN  redis_setex(r, user_key(token), ttl, json_dumps(user_data(user)), t)

\* result: ok/status/detail and the id of the user
validate_refresh_token(us, rts, token, t) ==
    LET i == get_active_token(rts, _hash_token(token), t)
    IN  IF i = 0 THEN HTTPException(401, "Invalid refresh token")
        ELSE IF get_by_id(us, rts[i].user_id) = 0
             THEN HTTPException(401, "Invalid refresh token")
        ELSE Ok(rts[i].user_id)

\* result: ok/status/detail and Redis afterwards
revoke_access_token(r, token, t) ==
    LET d == decode_and_validate_access_token(token, t)
    IN  IF ~d.ok THEN d @@ [redis |-> r]
        ELSE LET s == redis_setex(r, bl_key(token),
                                  IntTrunc(d.value.exp * TicksPerSecond - t), "1", t)
             IN  IF ~s.ok THEN HTTPException(500, "Internal Server Error") @@ [redis |-> r]
                 ELSE [ok |-> TRUE, redis |-> s.redis]

\* UploadFileService.upload_file: the file is stored under the public id
\* RestApp/{username}, overwriting what is there.  version is the version
\* Cloudinary answers the upload with (r.get("version")), and the URL
\* returned is built from the public id and that version, not from the file.
\* Result: Cloudinary afterwards, and the URL.
upload_file(cl, file, username, version) ==
    LET public_id == <<"RestApp", username>>
    IN  [cloudinary |-> Append(cl, [public_id |-> public_id, file |-> file,
                                    version |-> version]),
         url |-> <<"cloudinary", public_id, version>>]

\* slowapi, fixed window in memory: the counter of a client address starts a
\* window of RATE_LIMIT_SECONDS at its first hit, counts every hit and lets
\* the first RATE_LIMIT hits of the window pass.
\* Result: whether the request passes, and the storage afterwards.
limiter_hit(storage, address, t) ==
    LET w == storage[address]
        n == IF w.expire_at <= t THEN 1 ELSE w.count + 1
        e == IF w.expire_at <= t THEN t + RATE_LIMIT_SECONDS * TicksPerSecond
             ELSE w.expire_at
    IN  [ok |-> n <= RATE_LIMIT,
         storage |-> [storage EXCEPT ![address] = [count |-> n, expire_at |-> e]]]

----------------------------------------------------------------------------
(* Contacts (repository/contacts_repository.py, services/contacts_services.py) *)

\* Optional[Contact] is a set with no or one row
get_contact_by_id(cs, contact_id) == {c \in cs : c.id = contact_id}

\* columns declared nullable=False that a request body can set
NotNullColumns == {"first_name", "last_name", "email", "phone_number", "birthday"}

\* the commit fails (IntegrityError) on a NULL in a NOT NULL column or a second
\* row with the same e-mail (Contact.email is unique=True)
IntegrityError(cs, row) ==
    \/ \E col \in NotNullColumns : row[col] = NoneStr
    \/ \E c \in cs : c.id # row.id /\ c.email = row.email

\* Contact(**body.model_dump(), user_id=user_id); add, commit.  created_at and
\* updated_at default to func.now(), PostgreSQL's now(): the time t at which
\* the transaction of the session began
create_contact_repo(cs, seq, body, user_id, t) ==
    LET row == [id |-> seq + 1, first_name |-> body.first_name,
                last_name |-> body.last_name, email |-> body.email,
                phone_number |-> body.phone_number, birthday |-> body.birthday,
                additional_info |-> body.additional_info,
                created_at |-> t, updated_at |-> t, user_id |-> user_id]
    IN  IF IntegrityError(cs, row) THEN [ok |-> FALSE, contacts |-> cs]
        ELSE [ok |-> TRUE, contacts |-> cs \cup {row}, contact |-> row]

\* mutation: model_dump(exclude_none=True), a supplied null is dropped
apply_update_exclude_none(c, update_data) ==
    [col \in DOMAIN c |->
        IF col \in DOMAIN update_data /\ update_data[col] # NoneStr
        THEN update_data[col] ELSE c[col]]

\* for key, value in body.model_dump(exclude_unset=True).items(): setattr(...)
apply_update(c, update_data) ==
    [col \in DOMAIN c |-> IF col \in DOMAIN update_data THEN update_data[col] ELSE c[col]]

\* ContactService.get_contact: None when the row belongs to another user
get_contact(cs, current_user, contact_id) ==
    LET found == get_contact_by_id(cs, contact_id)
    IN  IF found # {} /\ (\E c \in found : c.user_id # current_user.id) THEN {}
        ELSE found

\* one character folded to lower case, as ILIKE compares
lower_char(ch) ==
    LET upper == "ABCDEFGHIJKLMNOPQRSTUVWXYZ"
        lower_case == "abcdefghijklmnopqrstuvwxyz"
    IN  IF \E i \in 1..Len(upper) : SubSeq(upper, i, i) = ch
        THEN LET i == CHOOSE i \in 1..Len(upper) : SubSeq(upper, i, i) = ch
             IN  SubSeq(lower_case, i, i)
        ELSE ch

\* PostgreSQL: string ILIKE pattern.  In the pattern % stands for any run of
\* characters and _ for any one character; a backslash makes the character
\* after it, be it % or _ or any other, stand for itself; every other
\* character stands for itself.  Letters match whatever their case.  (A
\* pattern that ends in a lone backslash is an error; "%search%" never does,
\* as a backslash at the end of the search escapes the closing %.)
RECURSIVE ilike(_, _)
ilike(str, pattern) ==
    IF pattern = "" THEN str = ""
    ELSE LET p == SubSeq(pattern, 1, 1)
             rest == SubSeq(pattern, 2, Len(pattern))
         IN  IF p = "\\"
             THEN /\ rest # ""
                  /\ str # ""
                  /\ lower_char(SubSeq(rest, 1, 1)) = lower_char(SubSeq(str, 1, 1))
                  /\ ilike(SubSeq(str, 2, Len(str)), SubSeq(rest, 2, Len(rest)))
             ELSE IF p = "%"
             THEN \E k \in 0..Len(str) : ilike(SubSeq(str, k + 1, Len(str)), rest)
             ELSE /\ str # ""
                  /\ p = "_" \/ lower_char(p) = lower_char(SubSeq(str, 1, 1))
                  /\ ilike(SubSeq(str, 2, Len(str)), rest)

\* the orders in which a SELECT without ORDER BY can return a set of rows
RowOrders(rows) ==
    {f \in [1..Cardinality(rows) -> rows] :
        \A i, j \in 1..Cardinality(rows) : i # j => f[i] # f[j]}

\* select(Contact).where(user_id == user_id).offset(offset).limit(limit), and
\* for a search that is not empty .where(or_(first_name.ilike("%search%"), ...)):
\* the set of lists the query can return
get_contacts(cs, limit, offset, search, user_id) ==
    LET rows == {c \in cs :
                    /\ c.user_id = user_id
                    /\ (search # NoneStr /\ search # "")
                           => \/ ilike(c.first_name, "%" \o search \o "%")
                              \/ ilike(c.last_name, "%" \o search \o "%")
                              \/ ilike(c.email, "%" \o search \o "%")}
        n == Cardinality(rows)
        last == IF offset + limit < n THEN offset + limit ELSE n
    IN  {SubSeq(f, offset + 1, last) : f \in RowOrders(rows)}

\* the calendar date of instant 0 of the clock
EpochDate == <<2023, 12, 20>>

DayTicks == 86400 * TicksPerSecond

DaysInMonth(y, m) ==
    IF m = 2 THEN (IF (y % 4 = 0 /\ y % 100 # 0) \/ y % 400 = 0 THEN 29 ELSE 28)
    ELSE IF m \in {4, 6, 9, 11} THEN 30 ELSE 31

NextDay(d) ==
    IF d[3] < DaysInMonth(d[1], d[2]) THEN <<d[1], d[2], d[3] + 1>>
    ELSE IF d[2] < 12 THEN <<d[1], d[2] + 1, 1>>
    ELSE <<d[1] + 1, 1, 1>>

\* date + timedelta(days=n)
RECURSIVE AddDays(_, _)
AddDays(d, n) == IF n = 0 THEN d ELSE AddDays(NextDay(d), n - 1)

\* date.today()
date_today(t) == AddDays(EpochDate, t \div DayTicks)

\* extract('month', birthday) = today.month AND extract('day', birthday) >= today.day
\* OR extract('month', birthday) = next_week.month AND extract('day', ...) <= next_week.day
get_upcoming_birthdays(cs, user_id, today) ==
    LET next_week == AddDays(today, 7)
    IN  {c \in cs :
            /\ c.user_id = user_id
            /\ \/ c.birthday[2] = today[2] /\ c.birthday[3] >= today[3]
               \/ c.birthday[2] = next_week[2] /\ c.birthday[3] <= next_week[3]}

\* ContactResponseSchema: the columns a response shows
ContactResponseSchema(c) ==
    [id |-> c.id, first_name |-> c.first_name, last_name |-> c.last_name,
     email |-> c.email, phone_number |-> c.phone_number, birthday |-> c.birthday,
     additional_info |-> c.additional_info, created_at |-> c.created_at,
     updated_at |-> c.updated_at]

----------------------------------------------------------------------------
(* Requests in flight.  A handler is a coroutine: it gives up the event    *)
(* loop at every await of a database or Redis round trip, and other        *)
(* requests, each with a database session of its own (get_db), and the     *)
(* clock run in between.  A request holds a slot of inflight from its      *)
(* first round trip to its response and to the end of its background       *)
(* task; the code that runs between two round trips is part of the step    *)
(* of the later one.                                                       *)

Requests == 1..MaxRequests

\* the addresses requests come from (get_remote_address, the key of the limiter)
ClientAddresses == {"10.0.0.1"}

\* the limiter has counted no request
NoHits == [a \in ClientAddresses |-> [count |-> 0, expire_at |-> 0]]

Idle == [pc |-> "idle"]

\* a new request takes the first free slot
Start(q) ==
    /\ served < MaxServed
    /\ inflight[q] = Idle
    /\ \A p \in Requests : p < q => inflight[p] # Idle
    /\ served' = served + 1

Goto(q, locals) == inflight' = [inflight EXCEPT ![q] = locals]

Finish(q) == inflight' = [inflight EXCEPT ![q] = Idle]

\* requests in flight that are going to insert a row into users /
\* refresh_tokens / contacts
Registering ==
    Cardinality({p \in Requests : inflight[p].pc \in {"register_email", "register_insert"}})

Inserting ==
    Cardinality({p \in Requests :
                    inflight[p].pc \in {"login_insert", "refresh_user", "refresh_insert"}})

Creating ==
    Cardinality({p \in Requests :
                    /\ inflight[p] # Idle
                    /\ inflight[p].op = "create_contact"
                    /\ inflight[p].pc # "create_contact_refresh"})

\* the session of a request has no transaction open
NoTransaction == NULL

----------------------------------------------------------------------------
(* Initial state: empty database, empty Redis, no request served *)

NoResponse == Response("none", <<>>, 0, "", <<>>)

Init ==
    /\ now = 0
    /\ users = <<>>
    /\ user_seq = 0
    /\ refresh_tokens = <<>>
    /\ contacts = {}
    /\ contact_seq = 0
    /\ redis = <<>>
    /\ jwts = {}
    /\ resp = NoResponse
    /\ advances = 0
    /\ served = 0
    /\ inflight = [q \in Requests |-> Idle]
    /\ cloudinary = <<>>
    /\ limits = NoHits

\* tokens a client can present: those handed out, and a forged one
PresentableTokens == jwts \cup {ForgedToken}

\* refresh tokens a client can present: those a response has handed out (a
\* login or a refresh stores the new token before its response leaves), and
\* one that was never issued
UnknownRefreshToken == 0

PresentableRefreshTokens ==
    {r \in RawTokens :
        /\ get_by_token_hash(refresh_tokens, _hash_token(r)) # 0
        /\ \A q \in Requests :
               (inflight[q].pc \in {"login_refresh", "refresh_refresh", "revoke_select",
                                    "revoke_commit"}
                    /\ inflight[q].op \in {"login", "refresh"})
                   => inflight[q].body.refresh_token # r}
        \cup {UnknownRefreshToken}

----------------------------------------------------------------------------
(* Routes of routes/auth.py and routes/users.py *)

\* POST /api/auth/register; register_user: SELECT users by username
RegisterSelectUsername(q, username, email, password) ==
    LET args == [username |-> username, email |-> email, password |-> password]
        found == get_by_username(users, username)
    IN  /\ Start(q)
        /\ found = 0 => Len(users) + Registering < MaxUsers
        /\ IF found # 0
           THEN /\ resp' = Response("register", args, 409, "User already exists", <<>>)
                /\ UNCHANGED inflight
           ELSE /\ Goto(q, [pc |-> "register_email", op |-> "register", args |-> args])
                /\ UNCHANGED resp
        /\ UNCHANGED <<now, users, user_seq, refresh_tokens, contacts, contact_seq, redis,
                       jwts, advances, cloudinary, limits>>

\* mutation: the e-mail is not looked up
RegisterSelectEmail_no_check(q) ==
    LET r == inflight[q]
    IN  /\ r.pc = "register_email"
        /\ Goto(q, [r EXCEPT !.pc = "register_insert"])
        /\ UNCHANGED <<now, users, user_seq, refresh_tokens, contacts, contact_seq, redis,
                       jwts, resp, advances, served, cloudinary, limits>>

\* register_user: SELECT users by email
RegisterSelectEmail(q) ==
    LET r == inflight[q]
    IN  /\ r.pc = "register_email"
        /\ IF get_user_by_email(users, r.args.email) # 0
           THEN /\ resp' = Response("register", r.args, 409, "Email already exists", <<>>)
                /\ Finish(q)
           ELSE /\ Goto(q, [r EXCEPT !.pc = "register_insert"])
                /\ UNCHANGED resp
        /\ UNCHANGED <<now, users, user_seq, refresh_tokens, contacts, contact_seq, redis,
                       jwts, advances, served, cloudinary, limits>>

\* create_user: INSERT and commit.  The id is the next value of the users.id
\* sequence, which is drawn whether or not the INSERT succeeds.
\* users.username and users.email are unique: the INSERT of a duplicate
\* raises IntegrityError, which nothing catches (500).
RegisterInsert(q) ==
    LET r == inflight[q]
        duplicate == \E i \in 1..Len(users) :
                         \/ users[i].username = r.args.username
                         \/ users[i].email = r.args.email
        created == create_user(users, user_seq + 1, r.args.username, r.args.email,
                               _hash_password(r.args.password),
                               Gravatar(r.args.email), "user")
    IN  /\ r.pc = "register_insert"
        /\ user_seq' = user_seq + 1
        /\ IF duplicate
           THEN /\ resp' = Response("register", r.args, 500, "Internal Server Error", <<>>)
                /\ Finish(q)
                /\ UNCHANGED users
           ELSE /\ users' = created
                /\ Goto(q, [pc |-> "register_refresh", op |-> "register",
                            args |-> r.args, id |-> user_seq + 1])
                /\ UNCHANGED resp
        /\ UNCHANGED <<now, refresh_tokens, contacts, contact_seq, redis, jwts, advances,
                       served, cloudinary, limits>>

\* BaseRepository.create: refresh, the SELECT by id of the row inserted; the
\* row read is the 201 response
RegisterRefresh(q) ==
    LET r == inflight[q]
    IN  /\ r.pc = "register_refresh"
        /\ resp' = Response("register", r.args, 201, "", users[get_by_id(users, r.id)])
        /\ Goto(q, [pc |-> "register_send_email", op |-> "register", args |-> r.args])
        /\ UNCHANGED <<now, users, user_seq, refresh_tokens, contacts, contact_seq, redis,
                       jwts, advances, served, cloudinary, limits>>

\* the background task send_email, run after the response: it mails
\* create_email_token({"sub": email}), made at the clock of that moment
RegisterSendEmail(q) ==
    LET r == inflight[q]
    IN  /\ r.pc = "register_send_email"
        /\ jwts' = jwts \cup {create_email_token(r.args.email, now)}
        /\ Finish(q)
        /\ UNCHANGED <<now, users, user_seq, refresh_tokens, contacts, contact_seq, redis,
                       resp, advances, served, cloudinary, limits>>

\* GET /api/users/confirmed_email/{token}: get_email_from_token, then the
\* route's SELECT users by email
ConfirmedEmailSelect(q, token) ==
    LET e == get_email_from_token(token, now)
        args == [token |-> token]
        uid == get_user_by_email(users, e.value)
    IN  /\ Start(q)
        /\ IF ~e.ok
           THEN /\ resp' = Response("confirmed_email", args, e.status, e.detail, <<>>)
                /\ UNCHANGED inflight
           ELSE IF uid = 0
           THEN /\ resp' = Response("confirmed_email", args, 400, "Verification error", <<>>)
                /\ UNCHANGED inflight
           ELSE IF users[uid].confirmed
           THEN /\ resp' = Response("confirmed_email", args, 200,
                                    "Your email is already confirmed", <<>>)
                /\ UNCHANGED inflight
           ELSE /\ Goto(q, [pc |-> "confirmed_email_select", op |-> "confirmed_email",
                            args |-> args, email |-> e.value])
                /\ UNCHANGED resp
        /\ UNCHANGED <<now, users, user_seq, refresh_tokens, contacts, contact_seq, redis,
                       jwts, advances, cloudinary, limits>>

\* UserRepository.confirmed_email: SELECT users by email.  The row is there
\* (rows are never deleted, e-mails never change) and the session already
\* holds it, as the route's SELECT read it.
ConfirmedEmailSelectRepo(q) ==
    LET r == inflight[q]
    IN  /\ r.pc = "confirmed_email_select"
        /\ Goto(q, [r EXCEPT !.pc = "confirmed_email_commit"])
        /\ UNCHANGED <<now, users, user_seq, refresh_tokens, contacts, contact_seq, redis,
                       jwts, resp, advances, served, cloudinary, limits>>

\* UserRepository.confirmed_email: user.confirmed = True, commit (the UPDATE
\* of the row read unconfirmed), and the response of the route
ConfirmedEmailCommit(q) ==
    LET r == inflight[q]
    IN  /\ r.pc = "confirmed_email_commit"
        /\ users' = confirmed_email_repo(users, r.email)
        /\ resp' = Response("confirmed_email", r.args, 200, "Email successfully confirmed",
                            <<>>)
        /\ Finish(q)
        /\ UNCHANGED <<now, user_seq, refresh_tokens, contacts, contact_seq, redis, jwts,
                       advances, served, cloudinary, limits>>

\* POST /api/users/request_email: SELECT users by email.  user.confirmed is
\* read before "if user": for an e-mail of no user it is None.confirmed, an
\* AttributeError that nothing catches.  The body records the message and
\* the e-mails scheduled.
RequestEmail(q, email) ==
    LET uid == get_user_by_email(users, email)
        args == [email |-> email]
    IN  /\ Start(q)
        /\ IF uid = 0
           THEN /\ resp' = Response("request_email", args, 500,
                                    "Internal Server Error", <<>>)
                /\ UNCHANGED inflight
           ELSE IF users[uid].confirmed
           THEN /\ resp' = Response("request_email", args, 200, "",
                                    [message |-> "Your email is already confirmed",
                                     scheduled |-> <<>>])
                /\ UNCHANGED inflight
           ELSE /\ resp' = Response("request_email", args, 200, "",
                                    [message |-> "Check your email to confirm your address",
                                     scheduled |-> <<users[uid].email>>])
                /\ Goto(q, [pc |-> "request_email_send", op |-> "request_email",
                            args |-> args, email |-> users[uid].email])
        /\ UNCHANGED <<now, users, user_seq, refresh_tokens, contacts, contact_seq, redis,
                       jwts, advances, cloudinary, limits>>

\* the background task send_email of request_email
RequestEmailSend(q) ==
    LET r == inflight[q]
    IN  /\ r.pc = "request_email_send"
        /\ jwts' = jwts \cup {create_email_token(r.email, now)}
        /\ Finish(q)
        /\ UNCHANGED <<now, users, user_seq, refresh_tokens, contacts, contact_seq, redis,
                       resp, advances, served, cloudinary, limits>>

\* POST /api/auth/login; authenticate: SELECT users by username, then the
\* checks on the row read
LoginSelect(q, username, password) ==
    LET a == authenticate(users, username, password)
        args == [username |-> username, password |-> password]
    IN  /\ Start(q)
        /\ a.ok => Len(refresh_tokens) + Inserting < MaxTokens
        /\ IF ~a.ok
           THEN /\ resp' = Response("login", args, a.status, a.detail, <<>>)
                /\ UNCHANGED inflight
           ELSE /\ Goto(q, [pc |-> "login_insert", op |-> "login", args |-> args,
                            user |-> users[a.value]])
                /\ UNCHANGED resp
        /\ UNCHANGED <<now, users, user_seq, refresh_tokens, contacts, contact_seq, redis,
                       jwts, advances, cloudinary, limits>>

\* create_access_token and create_refresh_token for the user read: both read
\* the clock; save_token: INSERT refresh_tokens and commit
LoginInsert(q) ==
    LET r == inflight[q]
        access_token == create_access_token(r.user.username, now)
        c == create_refresh_token(refresh_tokens, r.user.id, now)
    IN  /\ r.pc = "login_insert"
        /\ refresh_tokens' = c.refresh_tokens
        /\ Goto(q, [pc |-> "login_refresh", op |-> "login", args |-> r.args,
                    body |-> [access_token |-> access_token, token_type |-> "bearer",
                              refresh_token |-> c.token]])
        /\ UNCHANGED <<now, users, user_seq, contacts, contact_seq, redis, jwts, resp,
                       advances, served, cloudinary, limits>>

\* save_token: refresh, the SELECT of the row inserted (no client knows its
\* token yet, so no request has changed it), and the 200 response
LoginRefresh(q) ==
    LET r == inflight[q]
    IN  /\ r.pc = "login_refresh"
        /\ resp' = Response("login", r.args, 200, "", r.body)
        /\ jwts' = jwts \cup {r.body.access_token}
        /\ Finish(q)
        /\ UNCHANGED <<now, users, user_seq, refresh_tokens, contacts, contact_seq, redis,
                       advances, served, cloudinary, limits>>

\* POST /api/auth/refresh; validate_refresh_token: SELECT the active token
\* at the clock of the call
RefreshSelectToken(q, refresh_token) ==
    LET i == get_active_token(refresh_tokens, _hash_token(refresh_token), now)
        args == [refresh_token |-> refresh_token]
    IN  /\ Start(q)
        /\ i # 0 => Len(refresh_tokens) + Inserting < MaxTokens
        /\ IF i = 0
           THEN /\ resp' = Response("refresh", args, 401, "Invalid refresh token", <<>>)
                /\ UNCHANGED inflight
           ELSE /\ Goto(q, [pc |-> "refresh_user", op |-> "refresh", args |-> args,
                            user_id |-> refresh_tokens[i].user_id])
                /\ UNCHANGED resp
        /\ UNCHANGED <<now, users, user_seq, refresh_tokens, contacts, contact_seq, redis,
                       jwts, advances, cloudinary, limits>>

\* validate_refresh_token: SELECT users by id
RefreshSelectUser(q) ==
    LET r == inflight[q]
        uid == get_by_id(users, r.user_id)
    IN  /\ r.pc = "refresh_user"
        /\ IF uid = 0
           THEN /\ resp' = Response("refresh", r.args, 401, "Invalid refresh token", <<>>)
                /\ Finish(q)
           ELSE /\ Goto(q, [pc |-> "refresh_insert", op |-> "refresh", args |-> r.args,
                            user |-> users[uid]])
                /\ UNCHANGED resp
        /\ UNCHANGED <<now, users, user_seq, refresh_tokens, contacts, contact_seq, redis,
                       jwts, advances, served, cloudinary, limits>>

\* create_access_token and create_refresh_token: both read the clock;
\* save_token: INSERT refresh_tokens and commit
RefreshInsert(q) ==
    LET r == inflight[q]
        c == create_refresh_token(refresh_tokens, r.user.id, now)
    IN  /\ r.pc = "refresh_insert"
        /\ refresh_tokens' = c.refresh_tokens
        /\ Goto(q, [pc |-> "refresh_refresh", op |-> "refresh", args |-> r.args,
                    status |-> 200,
                    body |-> [access_token |-> create_access_token(r.user.username, now),
                              token_type |-> "bearer", refresh_token |-> c.token]])
        /\ UNCHANGED <<now, users, user_seq, contacts, contact_seq, redis, jwts, resp,
                       advances, served, cloudinary, limits>>

\* save_token: refresh, the SELECT of the row inserted
RefreshRefresh(q) ==
    LET r == inflight[q]
    IN  /\ r.pc = "refresh_refresh"
        /\ Goto(q, [r EXCEPT !.pc = "revoke_select"])
        /\ UNCHANGED <<now, users, user_seq, refresh_tokens, contacts, contact_seq, redis,
                       jwts, resp, advances, served, cloudinary, limits>>

\* mutation: the refresh token is revoked before the access token is decoded
LogoutBlacklist_revoke_first(q, token, refresh_token) ==
    LET a == revoke_access_token(redis, token, now)
        args == [token |-> token, refresh_token |-> refresh_token]
        i == get_by_token_hash(refresh_tokens, _hash_token(refresh_token))
    IN  /\ Start(q)
        /\ refresh_tokens' = IF i # 0 /\ refresh_tokens[i].revoked_at = NULL
                             THEN revoke_token(refresh_tokens, i, now)
                             ELSE refresh_tokens
        /\ IF ~a.ok
           THEN /\ resp' = Response("logout", args, a.status, a.detail, <<>>)
                /\ UNCHANGED <<redis, inflight>>
           ELSE /\ redis' = a.redis
                /\ Goto(q, [pc |-> "revoke_select", op |-> "logout", args |-> args,
                            status |-> 204, body |-> <<>>])
                /\ UNCHANGED resp
        /\ UNCHANGED <<now, users, user_seq, contacts, contact_seq, jwts, advances,
                       cloudinary, limits>>

\* POST /api/auth/logout; revoke_access_token: the token is decoded and the
\* ttl computed at the clock of the call, SETEX bl:<token>
LogoutBlacklist(q, token, refresh_token) ==
    LET a == revoke_access_token(redis, token, now)
        args == [token |-> token, refresh_token |-> refresh_token]
    IN  /\ Start(q)
        /\ IF ~a.ok
           THEN /\ resp' = Response("logout", args, a.status, a.detail, <<>>)
                /\ UNCHANGED <<redis, inflight>>
           ELSE /\ redis' = a.redis
                /\ Goto(q, [pc |-> "revoke_select", op |-> "logout", args |-> args,
                            status |-> 204, body |-> <<>>])
                /\ UNCHANGED resp
        /\ UNCHANGED <<now, users, user_seq, refresh_tokens, contacts, contact_seq, jwts,
                       advances, cloudinary, limits>>

\* the tokens a response hands out
Issued(r) == IF r.op = "refresh" THEN {r.body.access_token} ELSE {}

\* mutation: the test of revoked_at is inverted
RevokeSelect_inverted(q) ==
    LET r == inflight[q]
        i == get_by_token_hash(refresh_tokens, _hash_token(r.args.refresh_token))
    IN  /\ r.pc = "revoke_select"
        /\ IF i # 0 /\ refresh_tokens[i].revoked_at # NULL
           THEN /\ Goto(q, [r EXCEPT !.pc = "revoke_commit"])
                /\ UNCHANGED <<resp, jwts>>
           ELSE /\ resp' = Response(r.op, r.args, r.status, "", r.body)
                /\ jwts' = jwts \cup Issued(r)
                /\ Finish(q)
        /\ UNCHANGED <<now, users, user_seq, refresh_tokens, contacts, contact_seq, redis,
                       advances, served, cloudinary, limits>>

\* mutation: revoked_at is not tested
RevokeSelect_unconditional(q) ==
    LET r == inflight[q]
        i == get_by_token_hash(refresh_tokens, _hash_token(r.args.refresh_token))
    IN  /\ r.pc = "revoke_select"
        /\ IF i # 0
           THEN /\ Goto(q, [r EXCEPT !.pc = "revoke_commit"])
                /\ UNCHANGED <<resp, jwts>>
           ELSE /\ resp' = Response(r.op, r.args, r.status, "", r.body)
                /\ jwts' = jwts \cup Issued(r)
                /\ Finish(q)
        /\ UNCHANGED <<now, users, user_seq, refresh_tokens, contacts, contact_seq, redis,
                       advances, served, cloudinary, limits>>

\* revoke_refresh_token, called by refresh and by logout: SELECT the record
\* by token hash; nothing more to do when there is none or it is revoked
RevokeSelect(q) ==
    LET r == inflight[q]
        i == get_by_token_hash(refresh_tokens, _hash_token(r.args.refresh_token))
    IN  /\ r.pc = "revoke_select"
        /\ IF i # 0 /\ refresh_tokens[i].revoked_at = NULL
           THEN /\ Goto(q, [r EXCEPT !.pc = "revoke_commit"])
                /\ UNCHANGED <<resp, jwts>>
           ELSE /\ resp' = Response(r.op, r.args, r.status, "", r.body)
                /\ jwts' = jwts \cup Issued(r)
                /\ Finish(q)
        /\ UNCHANGED <<now, users, user_seq, refresh_tokens, contacts, contact_seq, redis,
                       advances, served, cloudinary, limits>>

\* revoke_token: revoked_at = datetime.now(), commit (UPDATE of the record
\* read, whatever it holds by now), and the response of the route
RevokeCommit(q) ==
    LET r == inflight[q]
        i == get_by_token_hash(refresh_tokens, _hash_token(r.args.refresh_token))
    IN  /\ r.pc = "revoke_commit"
        /\ refresh_tokens' = revoke_token(refresh_tokens, i, now)
        /\ resp' = Response(r.op, r.args, r.status, "", r.body)
        /\ jwts' = jwts \cup Issued(r)
        /\ Finish(q)
        /\ UNCHANGED <<now, users, user_seq, contacts, contact_seq, redis, advances,
                       served, cloudinary, limits>>

\* POST /api/auth/request-reset-password: the route's SELECT users by email;
\* the response leaves before the background task runs
RequestResetPassword(q, email) ==
    LET args == [email |-> email]
        uid == get_user_by_email(users, email)
    IN  /\ Start(q)
        /\ IF uid = 0
           THEN /\ resp' = Response("request_reset_password", args, 404,
                                    "User not found", <<>>)
                /\ UNCHANGED inflight
           ELSE /\ resp' = Response("request_reset_password", args, 200, "", <<>>)
                /\ Goto(q, [pc |-> "send_password_reset_email",
                            op |-> "request_reset_password", args |-> args,
                            email |-> users[uid].email])
        /\ UNCHANGED <<now, users, user_seq, refresh_tokens, contacts, contact_seq, redis,
                       jwts, advances, cloudinary, limits>>

\* the background task send_password_reset_email: in a session of its own,
\* SELECT users by email; the task ends when there is no such user
SendPasswordResetEmailSelect(q) ==
    LET r == inflight[q]
    IN  /\ r.pc = "send_password_reset_email"
        /\ IF get_user_by_email(users, r.email) = 0
           THEN Finish(q)
           ELSE Goto(q, [r EXCEPT !.pc = "send_reset_password_email"])
        /\ UNCHANGED <<now, users, user_seq, refresh_tokens, contacts, contact_seq, redis,
                       jwts, resp, advances, served, cloudinary, limits>>

\* send_reset_password_email: it mails create_email_token({"sub": email}),
\* made at the clock of that moment
SendResetPasswordEmail(q) ==
    LET r == inflight[q]
    IN  /\ r.pc = "send_reset_password_email"
        /\ jwts' = jwts \cup {create_email_token(r.email, now)}
        /\ Finish(q)
        /\ UNCHANGED <<now, users, user_seq, refresh_tokens, contacts, contact_seq, redis,
                       resp, advances, served, cloudinary, limits>>

\* POST /api/auth/reset-password; reset_password: the token is decoded at the
\* clock of the call, then SELECT users by email
ResetPassword(q, token, new_password) ==
    LET d == decode_and_validate_access_token(token, now)
        args == [token |-> token, new_password |-> new_password]
        email == payload_get(d.value, "sub")
        uid == get_user_by_email(users, email)
    IN  /\ Start(q)
        /\ IF ~d.ok
           THEN /\ resp' = Response("reset_password", args, d.status, d.detail, <<>>)
                /\ UNCHANGED inflight
           ELSE IF email = NoneStr \/ email = ""
           THEN /\ resp' = Response("reset_password", args, 400,
                                    "Invalid token: no email", <<>>)
                /\ UNCHANGED inflight
           ELSE IF uid = 0
           THEN /\ resp' = Response("reset_password", args, 404, "User not found", <<>>)
                /\ UNCHANGED inflight
           ELSE /\ Goto(q, [pc |-> "reset_password_select", op |-> "reset_password",
                            args |-> args, email |-> users[uid].email])
                /\ UNCHANGED resp
        /\ UNCHANGED <<now, users, user_seq, refresh_tokens, contacts, contact_seq, redis,
                       jwts, advances, cloudinary, limits>>

\* UserRepository.update_password: SELECT users by email (the row the
\* session holds)
ResetPasswordSelectRepo(q) ==
    LET r == inflight[q]
    IN  /\ r.pc = "reset_password_select"
        /\ Goto(q, [r EXCEPT !.pc = "reset_password_commit"])
        /\ UNCHANGED <<now, users, user_seq, refresh_tokens, contacts, contact_seq, redis,
                       jwts, resp, advances, served, cloudinary, limits>>

\* UserRepository.update_password: user.hash_password = the salted hash of
\* the new password, commit, and the response of the route
ResetPasswordCommit(q) ==
    LET r == inflight[q]
    IN  /\ r.pc = "reset_password_commit"
        /\ users' = update_password(users, r.email, _hash_password(r.args.new_password))
        /\ resp' = Response("reset_password", r.args, 200, "", <<>>)
        /\ Finish(q)
        /\ UNCHANGED <<now, user_seq, refresh_tokens, contacts, contact_seq, redis, jwts,
                       advances, served, cloudinary, limits>>

----------------------------------------------------------------------------
(* get_current_user (services/auth.py), called by GET /api/users/me and,   *)
(* as a dependency, by PATCH /api/users/avatar and every contact route.    *)
(* The database session of the dependency is the session of the route      *)
(* (get_db is resolved once per request).                                  *)

\* get_current_user has returned user.  GET /api/users/me answers with it,
\* serialised as UserResponse, in which role is required: a user built from
\* the cache has no role, the response fails validation and the answer is
\* 500.  Any other route goes on to its own first round trip.  tx is the
\* time at which the transaction of the session began, NoTransaction when
\* the user came from the cache and no statement has been run.
Authenticated(q, r, user, tx) ==
    IF r.op = "get_current_user"
    THEN /\ resp' = IF user.role = NoneStr
                    THEN Response(r.op, r.args, 500, "Internal Server Error", <<>>)
                    ELSE Response(r.op, r.args, 200, "", user)
         /\ Finish(q)
    ELSE /\ Goto(q, [pc |-> r.op, op |-> r.op, args |-> r.args,
                     current_user |-> user, tx |-> tx])
         /\ UNCHANGED resp

\* get_current_user: EXISTS bl:<token>.  hits is the storage of the rate
\* limiter after the request has passed it.
GetCurrentUserExists(q, op, args, hits) ==
    /\ Start(q)
    /\ limits' = hits
    /\ IF redis_exists(redis, bl_key(args.token), now)
       THEN /\ resp' = Response(op, args, 401, "Token revoked", <<>>)
            /\ UNCHANGED inflight
       ELSE /\ Goto(q, [pc |-> "get_current_user_get", op |-> op, args |-> args])
            /\ UNCHANGED resp
    /\ UNCHANGED <<now, users, user_seq, refresh_tokens, contacts, contact_seq, redis,
                   jwts, advances, cloudinary>>

\* get_current_user: GET user:<token>; a hit is the user returned
GetCurrentUserGet(q) ==
    LET r == inflight[q]
        cached_user == redis_get(redis, user_key(r.args.token), now)
    IN  /\ r.pc = "get_current_user_get"
        /\ IF cached_user # <<>>
           THEN Authenticated(q, r, User(json_loads(cached_user[1])), NoTransaction)
           ELSE /\ Goto(q, [r EXCEPT !.pc = "get_current_user_select"])
                /\ UNCHANGED resp
        /\ UNCHANGED <<now, users, user_seq, refresh_tokens, contacts, contact_seq, redis,
                       jwts, advances, served, cloudinary, limits>>

\* get_current_user: the token is decoded at the clock of this moment, then
\* SELECT users by username, the first statement of the session
GetCurrentUserSelect(q) ==
    LET r == inflight[q]
        d == decode_and_validate_access_token(r.args.token, now)
        username == payload_get(d.value, "sub")
        uid == get_by_username(users, username)
    IN  /\ r.pc = "get_current_user_select"
        /\ IF ~d.ok
           THEN /\ resp' = Response(r.op, r.args, d.status, d.detail, <<>>)
                /\ Finish(q)
           ELSE IF username = NoneStr \/ username = "" \/ uid = 0
           THEN /\ resp' = Response(r.op, r.args, 401,
                                    "Could not validate credentials", <<>>)
                /\ Finish(q)
           ELSE /\ Goto(q, [pc |-> "get_current_user_cache", op |-> r.op,
                            args |-> r.args, user |-> users[uid], exp |-> d.value.exp,
                            tx |-> now])
                /\ UNCHANGED resp
        /\ UNCHANGED <<now, users, user_seq, refresh_tokens, contacts, contact_seq, redis,
                       jwts, advances, served, cloudinary, limits>>

\* cache_user: the ttl is computed at the clock of this moment, SETEX
\* user:<token>; the user read is the user returned
GetCurrentUserCache(q) ==
    LET r == inflight[q]
        c == cache_user(redis, r.user, r.args.token, r.exp, now)
    IN  /\ r.pc = "get_current_user_cache"
        /\ IF ~c.ok
           THEN /\ resp' = Response(r.op, r.args, 500, "Internal Server Error", <<>>)
                /\ Finish(q)
                /\ UNCHANGED redis
           ELSE /\ redis' = c.redis
                /\ Authenticated(q, r, r.user, r.tx)
        /\ UNCHANGED <<now, users, user_seq, refresh_tokens, contacts, contact_seq, jwts,
                       advances, served, cloudinary, limits>>

\* GET /api/users/me.  The limiter counts the request before the route runs:
\* beyond RATE_LIMIT requests of the address in the window the answer is 429.
Me(q, token, address) ==
    LET hit == limiter_hit(limits, address, now)
        args == [token |-> token]
    IN  IF hit.ok
        THEN GetCurrentUserExists(q, "get_current_user", args, hit.storage)
        ELSE /\ Start(q)
             /\ limits' = hit.storage
             /\ resp' = Response("get_current_user", args, 429,
                                 "Request limit exceeded. Please try again later.", <<>>)
             /\ UNCHANGED <<now, users, user_seq, refresh_tokens, contacts, contact_seq,
                            redis, jwts, advances, inflight, cloudinary>>

\* PATCH /api/users/avatar
UpdateAvatar(q, token, file) ==
    GetCurrentUserExists(q, "update_avatar", [token |-> token, file |-> file], limits)

\* mutation: the role is not checked
UpdateAvatarSelect_no_role_check(q) ==
    \E version \in IF cloudinary = <<>> THEN {1}
                    ELSE {cloudinary[Len(cloudinary)].version,
                          cloudinary[Len(cloudinary)].version + 1} :
    LET r == inflight[q]
        up == upload_file(cloudinary, r.args.file, r.current_user.username, version)
        uid == get_user_by_email(users, r.current_user.email)
        loaded == IF r.tx = NoTransaction THEN users[uid] ELSE r.current_user
    IN  /\ r.pc = "update_avatar"
        /\ cloudinary' = up.cloudinary
        /\ IF uid = 0
           THEN /\ resp' = Response(r.op, r.args, 404, "User not found", <<>>)
                /\ Finish(q)
           ELSE /\ Goto(q, [pc |-> "update_avatar_select", op |-> r.op, args |-> r.args,
                            email |-> r.current_user.email, loaded |-> loaded,
                            url |-> up.url])
                /\ UNCHANGED resp
        /\ UNCHANGED <<now, users, user_seq, refresh_tokens, contacts, contact_seq, redis,
                       jwts, advances, served, limits>>

\* The route uploads the file for the username of current_user before
\* anything else, whoever the user is.  The version of the upload is
\* Cloudinary's choice: the version of the upload before it (two uploads in
\* one second) or a later one.  Then UserService.update_avatar_url:
\* SELECT users by the e-mail of current_user, 404 for no row, 403 for a role
\* other than admin.  A session that has read the row in get_current_user
\* keeps the row it read.
UpdateAvatarSelect(q) ==
    \E version \in IF cloudinary = <<>> THEN {1}
                    ELSE {cloudinary[Len(cloudinary)].version,
                          cloudinary[Len(cloudinary)].version + 1} :
    LET r == inflight[q]
        up == upload_file(cloudinary, r.args.file, r.current_user.username, version)
        uid == get_user_by_email(users, r.current_user.email)
        loaded == IF r.tx = NoTransaction THEN users[uid] ELSE r.current_user
    IN  /\ r.pc = "update_avatar"
        /\ cloudinary' = up.cloudinary
        /\ IF uid = 0
           THEN /\ resp' = Response(r.op, r.args, 404, "User not found", <<>>)
                /\ Finish(q)
           ELSE IF loaded.role # "admin"
           THEN /\ resp' = Response(r.op, r.args, 403,
                                    "Only admins can change the default avatar.", <<>>)
                /\ Finish(q)
           ELSE /\ Goto(q, [pc |-> "update_avatar_select", op |-> r.op, args |-> r.args,
                            email |-> r.current_user.email, loaded |-> loaded,
                            url |-> up.url])
                /\ UNCHANGED resp
        /\ UNCHANGED <<now, users, user_seq, refresh_tokens, contacts, contact_seq, redis,
                       jwts, advances, served, limits>>

\* UserRepository.update_avatar_url: SELECT users by email (the row the
\* session holds)
UpdateAvatarSelectRepo(q) ==
    LET r == inflight[q]
    IN  /\ r.pc = "update_avatar_select"
        /\ Goto(q, [r EXCEPT !.pc = "update_avatar_commit"])
        /\ UNCHANGED <<now, users, user_seq, refresh_tokens, contacts, contact_seq, redis,
                       jwts, resp, advances, served, cloudinary, limits>>

\* UserRepository.update_avatar_url: user.avatar = url, commit.  The commit
\* emits an UPDATE when url is not the avatar the session read.
UpdateAvatarCommit(q) ==
    LET r == inflight[q]
    IN  /\ r.pc = "update_avatar_commit"
        /\ users' = IF r.url # r.loaded.avatar
                    THEN update_avatar_url_repo(users, r.email, r.url)
                    ELSE users
        /\ Goto(q, [pc |-> "update_avatar_refresh", op |-> r.op, args |-> r.args,
                    email |-> r.email])
        /\ UNCHANGED <<now, user_seq, refresh_tokens, contacts, contact_seq, redis, jwts,
                       resp, advances, served, cloudinary, limits>>

\* UserRepository.update_avatar_url: refresh; the row read is the response
UpdateAvatarRefresh(q) ==
    LET r == inflight[q]
    IN  /\ r.pc = "update_avatar_refresh"
        /\ resp' = Response(r.op, r.args, 200, "", users[get_user_by_email(users, r.email)])
        /\ Finish(q)
        /\ UNCHANGED <<now, users, user_seq, refresh_tokens, contacts, contact_seq, redis,
                       jwts, advances, served, cloudinary, limits>>

----------------------------------------------------------------------------
(* Routes of routes/contacts_rotes.py.  Every route first resolves         *)
(* current_user through the dependency get_current_user(token); its        *)
(* statements run in the session in which get_current_user has run.        *)

\* func.now() of a statement: the start of the transaction it runs in, which
\* the statement begins when none is open
TransactionStart(r) == IF r.tx = NoTransaction THEN now ELSE r.tx

\* POST /api/contacts/
CreateContact(q, token, body) ==
    /\ contact_seq + Creating < MaxContacts
    /\ GetCurrentUserExists(q, "create_contact", [token |-> token, body |-> body], limits)

\* ContactRepository.create_contact: INSERT and commit.  The id is the next
\* value of the contacts.id sequence, drawn whether or not the INSERT
\* succeeds; an IntegrityError is caught by nothing (500).
CreateContactInsert(q) ==
    LET r == inflight[q]
        c == create_contact_repo(contacts, contact_seq, r.args.body, r.current_user.id,
                                 TransactionStart(r))
    IN  /\ r.pc = "create_contact"
        /\ contact_seq' = contact_seq + 1
        /\ contacts' = c.contacts
        /\ IF ~c.ok
           THEN /\ resp' = Response(r.op, r.args, 500, "Internal Server Error", <<>>)
                /\ Finish(q)
           ELSE /\ Goto(q, [pc |-> "create_contact_refresh", op |-> r.op, args |-> r.args,
                            id |-> c.contact.id])
                /\ UNCHANGED resp
        /\ UNCHANGED <<now, users, user_seq, refresh_tokens, redis, jwts, advances, served,
                       cloudinary, limits>>

\* ContactRepository.create_contact: refresh, the SELECT by id of the row
\* inserted, which raises when the row is gone (500); the row read is the
\* 201 response
CreateContactRefresh(q) ==
    LET r == inflight[q]
        found == get_contact_by_id(contacts, r.id)
    IN  /\ r.pc = "create_contact_refresh"
        /\ resp' = IF found = {}
                   THEN Response(r.op, r.args, 500, "Internal Server Error", <<>>)
                   ELSE Response(r.op, r.args, 201, "",
                                 ContactResponseSchema(CHOOSE c \in found : TRUE))
        /\ Finish(q)
        /\ UNCHANGED <<now, users, user_seq, refresh_tokens, contacts, contact_seq, redis,
                       jwts, advances, served, cloudinary, limits>>

\* GET /api/contacts/{contact_id}
GetContact(q, token, contact_id) ==
    GetCurrentUserExists(q, "get_contact", [token |-> token, contact_id |-> contact_id], limits)

\* ContactService.get_contact: SELECT contacts by id, and the response
GetContactSelect(q) ==
    LET r == inflight[q]
        found == get_contact(contacts, r.current_user, r.args.contact_id)
    IN  /\ r.pc = "get_contact"
        /\ resp' = IF found = {}
                   THEN Response(r.op, r.args, 404, "Contact not found", <<>>)
                   ELSE Response(r.op, r.args, 200, "",
                                 ContactResponseSchema(CHOOSE c \in found : TRUE))
        /\ Finish(q)
        /\ UNCHANGED <<now, users, user_seq, refresh_tokens, contacts, contact_seq, redis,
                       jwts, advances, served, cloudinary, limits>>

\* PUT /api/contacts/{contact_id}
UpdateContact(q, token, contact_id, body) ==
    GetCurrentUserExists(q, "update_contact",
                         [token |-> token, contact_id |-> contact_id, body |-> body], limits)

\* mutation: the owner of the row is not checked
UpdateContactSelect_no_owner_check(q) ==
    LET r == inflight[q]
        found == get_contact_by_id(contacts, r.args.contact_id)
    IN  /\ r.pc = "update_contact"
        /\ IF found = {}
           THEN /\ resp' = Response(r.op, r.args, 404, "Contact not found", <<>>)
                /\ Finish(q)
           ELSE /\ Goto(q, [pc |-> "update_contact_select", op |-> r.op, args |-> r.args,
                            loaded |-> CHOOSE c \in found : TRUE,
                            tx |-> TransactionStart(r)])
                /\ UNCHANGED resp
        /\ UNCHANGED <<now, users, user_seq, refresh_tokens, contacts, contact_seq, redis,
                       jwts, advances, served, cloudinary, limits>>

\* ContactService.update_contact: get_contact, the SELECT contacts by id and
\* the test of the owner.  The session keeps the row read.
UpdateContactSelect(q) ==
    LET r == inflight[q]
        found == get_contact(contacts, r.current_user, r.args.contact_id)
    IN  /\ r.pc = "update_contact"
        /\ IF found = {}
           THEN /\ resp' = Response(r.op, r.args, 404, "Contact not found", <<>>)
                /\ Finish(q)
           ELSE /\ Goto(q, [pc |-> "update_contact_select", op |-> r.op, args |-> r.args,
                            loaded |-> CHOOSE c \in found : TRUE,
                            tx |-> TransactionStart(r)])
                /\ UNCHANGED resp
        /\ UNCHANGED <<now, users, user_seq, refresh_tokens, contacts, contact_seq, redis,
                       jwts, advances, served, cloudinary, limits>>

\* ContactRepository.update_contact: SELECT contacts by id; None (404) when
\* the row is gone, otherwise the row the session holds
UpdateContactSelectRepo(q) ==
    LET r == inflight[q]
    IN  /\ r.pc = "update_contact_select"
        /\ IF get_contact_by_id(contacts, r.args.contact_id) = {}
           THEN /\ resp' = Response(r.op, r.args, 404, "Contact not found", <<>>)
                /\ Finish(q)
           ELSE /\ Goto(q, [r EXCEPT !.pc = "update_contact_commit"])
                /\ UNCHANGED resp
        /\ UNCHANGED <<now, users, user_seq, refresh_tokens, contacts, contact_seq, redis,
                       jwts, advances, served, cloudinary, limits>>

\* ContactRepository.update_contact: setattr of the fields of the body on the
\* row the session holds, commit.  The commit emits
\*   UPDATE contacts SET <the columns whose value is new>, updated_at = now()
\*   WHERE id = <id>
\* when some column has a new value (updated_at has onupdate=func.now()).
\* The UPDATE of a row that is gone raises StaleDataError and a NULL or a
\* duplicate e-mail IntegrityError, which nothing catches (500).
UpdateContactCommit(q) ==
    LET r == inflight[q]
        object == apply_update(r.loaded, r.args.body)
        changed == {col \in DOMAIN object : object[col] # r.loaded[col]}
        found == get_contact_by_id(contacts, r.args.contact_id)
        old == CHOOSE c \in found : TRUE
        new == [col \in DOMAIN old |->
                   IF col \in changed THEN object[col]
                   ELSE IF col = "updated_at" THEN r.tx
                   ELSE old[col]]
        failed == changed # {} /\ (found = {} \/ IntegrityError(contacts, new))
    IN  /\ r.pc = "update_contact_commit"
        /\ contacts' = IF changed = {} \/ failed THEN contacts
                       ELSE (contacts \ {old}) \cup {new}
        /\ IF failed
           THEN /\ resp' = Response(r.op, r.args, 500, "Internal Server Error", <<>>)
                /\ Finish(q)
           ELSE /\ Goto(q, [pc |-> "update_contact_refresh", op |-> r.op,
                            args |-> r.args])
                /\ UNCHANGED resp
        /\ UNCHANGED <<now, users, user_seq, refresh_tokens, contact_seq, redis, jwts,
                       advances, served, cloudinary, limits>>

\* ContactRepository.update_contact: refresh, which raises when the row is
\* gone (500); the row read is the 200 response
UpdateContactRefresh(q) ==
    LET r == inflight[q]
        found == get_contact_by_id(contacts, r.args.contact_id)
    IN  /\ r.pc = "update_contact_refresh"
        /\ resp' = IF found = {}
                   THEN Response(r.op, r.args, 500, "Internal Server Error", <<>>)
                   ELSE Response(r.op, r.args, 200, "",
                                 ContactResponseSchema(CHOOSE c \in found : TRUE))
        /\ Finish(q)
        /\ UNCHANGED <<now, users, user_seq, refresh_tokens, contacts, contact_seq, redis,
                       jwts, advances, served, cloudinary, limits>>

\* DELETE /api/contacts/{contact_id}: the route ignores what the service
\* returns and answers 204
DeleteContact(q, token, contact_id) ==
    GetCurrentUserExists(q, "delete_contact",
                         [token |-> token, contact_id |-> contact_id], limits)

\* ContactService.remove_contact: get_contact, the SELECT contacts by id and
\* the test of the owner
DeleteContactSelect(q) ==
    LET r == inflight[q]
    IN  /\ r.pc = "delete_contact"
        /\ IF get_contact(contacts, r.current_user, r.args.contact_id) = {}
           THEN /\ resp' = Response(r.op, r.args, 204, "", <<>>)
                /\ Finish(q)
           ELSE /\ Goto(q, [pc |-> "delete_contact_select", op |-> r.op,
                            args |-> r.args])
                /\ UNCHANGED resp
        /\ UNCHANGED <<now, users, user_seq, refresh_tokens, contacts, contact_seq, redis,
                       jwts, advances, served, cloudinary, limits>>

\* ContactRepository.remove_contact: SELECT contacts by id
DeleteContactSelectRepo(q) ==
    LET r == inflight[q]
    IN  /\ r.pc = "delete_contact_select"
        /\ IF get_contact_by_id(contacts, r.args.contact_id) = {}
           THEN /\ resp' = Response(r.op, r.args, 204, "", <<>>)
                /\ Finish(q)
           ELSE /\ Goto(q, [r EXCEPT !.pc = "delete_contact_commit"])
                /\ UNCHANGED resp
        /\ UNCHANGED <<now, users, user_seq, refresh_tokens, contacts, contact_seq, redis,
                       jwts, advances, served, cloudinary, limits>>

\* mutation: the row is not deleted
DeleteContactCommit_keep(q) ==
    LET r == inflight[q]
    IN  /\ r.pc = "delete_contact_commit"
        /\ contacts' = contacts
        /\ resp' = Response(r.op, r.args, 204, "", <<>>)
        /\ Finish(q)
        /\ UNCHANGED <<now, users, user_seq, refresh_tokens, contact_seq, redis, jwts,
                       advances, served, cloudinary, limits>>

\* ContactRepository.remove_contact: delete, commit (DELETE FROM contacts
\* WHERE id = <id>; a row that is gone makes no error), and the response
DeleteContactCommit(q) ==
    LET r == inflight[q]
    IN  /\ r.pc = "delete_contact_commit"
        /\ contacts' = contacts \ get_contact_by_id(contacts, r.args.contact_id)
        /\ resp' = Response(r.op, r.args, 204, "", <<>>)
        /\ Finish(q)
        /\ UNCHANGED <<now, users, user_seq, refresh_tokens, contact_seq, redis, jwts,
                       advances, served, cloudinary, limits>>

\* GET /api/contacts/?limit=&offset=&search=
GetContacts(q, token, limit, offset, search) ==
    GetCurrentUserExists(q, "get_contacts",
                         [token |-> token, limit |-> limit, offset |-> offset,
                          search |-> search], limits)

\* ContactRepository.get_contacts: the SELECT, and the response
GetContactsSelect(q) ==
    LET r == inflight[q]
    IN  /\ r.pc = "get_contacts"
        /\ \E result \in get_contacts(contacts, r.args.limit, r.args.offset,
                                      r.args.search, r.current_user.id) :
               resp' = Response(r.op, r.args, 200, "",
                                [i \in 1..Len(result) |->
                                    ContactResponseSchema(result[i])])
        /\ Finish(q)
        /\ UNCHANGED <<now, users, user_seq, refresh_tokens, contacts, contact_seq, redis,
                       jwts, advances, served, cloudinary, limits>>

\* GET /api/contacts/birthdays/upcoming
GetUpcomingBirthdays(q, token) ==
    GetCurrentUserExists(q, "get_upcoming_birthdays", [token |-> token], limits)

\* ContactRepository.get_upcoming_birthdays: date.today() and the SELECT, and
\* the response
GetUpcomingBirthdaysSelect(q) ==
    LET r == inflight[q]
    IN  /\ r.pc = "get_upcoming_birthdays"
        /\ resp' = Response(r.op, r.args, 200, "",
                            {ContactResponseSchema(c) :
                                c \in get_upcoming_birthdays(contacts, r.current_user.id,
                                                             date_today(now))})
        /\ Finish(q)
        /\ UNCHANGED <<now, users, user_seq, refresh_tokens, contacts, contact_seq, redis,
                       jwts, advances, served, cloudinary, limits>>

\* the clock moves on
Advance(d) ==
    /\ advances < MaxAdvances
    /\ now' = now + d
    /\ advances' = advances + 1
    /\ UNCHANGED <<users, user_seq, refresh_tokens, contacts, contact_seq, redis, jwts,
                   resp, served, inflight, cloudinary, limits>>

----------------------------------------------------------------------------
(* Accounts: registration, e-mail confirmation and login, from the empty   *)
(* database.                                                               *)

AccountsNext ==
    \/ \E q \in Requests, u \in Usernames, e \in Emails, p \in {"secret1"} :
           RegisterSelectUsername(q, u, e, p)
    \/ \E q \in Requests :
           \/ RegisterSelectEmail(q)
           \/ RegisterInsert(q)
           \/ RegisterRefresh(q)
           \/ RegisterSendEmail(q)
    \/ \E q \in Requests, t \in PresentableTokens : ConfirmedEmailSelect(q, t)
    \/ \E q \in Requests :
           \/ ConfirmedEmailSelectRepo(q)
           \/ ConfirmedEmailCommit(q)
    \/ \E q \in Requests, u \in Usernames, p \in Passwords : LoginSelect(q, u, p)
    \/ \E q \in Requests :
           \/ LoginInsert(q)
           \/ LoginRefresh(q)
    \/ \E d \in {RefreshTicks} : Advance(d)

SpecAccounts == Init /\ [][AccountsNext]_vars

----------------------------------------------------------------------------
(* Sessions: the token life cycle for two registered, confirmed users      *)
(* (the state seven days after their register and confirmed_email          *)
(* requests).  A registration that failed at its INSERT between the two    *)
(* has drawn id 2 from the sequence.                                       *)

RegisteredUsers ==
    LET u1 == register_user(<<>>, 0, "alice", "alice@x.com", "secret1").value
        u2 == register_user(u1, 2, "bob@x.com", "bob@x.com", "secret2").value
    IN  confirmed_email_repo(confirmed_email_repo(u2, "alice@x.com"), "bob@x.com")

\* the last value drawn from the users.id sequence
RegisteredSeq == RegisteredUsers[Len(RegisteredUsers)].id

\* the two users registered seven days before time 0: the confirmation
\* tokens mailed to them are still held by the clients and have just expired
RegistrationTokens ==
    {create_email_token(RegisteredUsers[i].email, 0 - EmailSeconds * TicksPerSecond) :
        i \in 1..Len(RegisteredUsers)}

SessionsInit ==
    /\ now = 0
    /\ users = RegisteredUsers
    /\ user_seq = RegisteredSeq
    /\ refresh_tokens = <<>>
    /\ contacts = {}
    /\ contact_seq = 0
    /\ redis = <<>>
    /\ jwts = RegistrationTokens
    /\ resp = NoResponse
    /\ advances = 0
    /\ served = 0
    /\ inflight = [q \in Requests |-> Idle]
    /\ cloudinary = <<>>
    /\ limits = NoHits

SessionsNext ==
    \/ \E q \in Requests, u \in Usernames, p \in Passwords : LoginSelect(q, u, p)
    \/ \E q \in Requests :
           \/ LoginInsert(q)
           \/ LoginRefresh(q)
    \/ \E q \in Requests, r \in PresentableRefreshTokens : RefreshSelectToken(q, r)
    \/ \E q \in Requests :
           \/ RefreshSelectUser(q)
           \/ RefreshInsert(q)
           \/ RefreshRefresh(q)
    \/ \E q \in Requests :
           \/ RevokeSelect(q)
           \/ RevokeCommit(q)
    \/ \E d \in {1, RefreshTicks} : Advance(d)

SpecSessions == SessionsInit /\ [][SessionsNext]_vars

----------------------------------------------------------------------------
(* Access tokens: logout and get_current_user with the blacklist and the   *)
(* user cache of Redis, for two registered, confirmed users that have      *)
(* logged in at time 0.                                                    *)

LoggedInTokens(t) ==
    LET r1 == create_refresh_token(<<>>, RegisteredUsers[1].id, t).refresh_tokens
    IN  create_refresh_token(r1, RegisteredUsers[2].id, t).refresh_tokens

LoggedInJwts(t) ==
    RegistrationTokens
        \cup {create_access_token(RegisteredUsers[i].username, t) : i \in 1..2}

LoggedInInit ==
    /\ now = 0
    /\ users = RegisteredUsers
    /\ user_seq = RegisteredSeq
    /\ refresh_tokens = LoggedInTokens(0)
    /\ contacts = {}
    /\ contact_seq = 0
    /\ redis = <<>>
    /\ jwts = LoggedInJwts(0)
    /\ resp = NoResponse
    /\ advances = 0
    /\ served = 0
    /\ inflight = [q \in Requests |-> Idle]
    /\ cloudinary = <<>>
    /\ limits = NoHits

LogoutNext ==
    \/ \E q \in Requests, t \in PresentableTokens, r \in PresentableRefreshTokens :
           LogoutBlacklist(q, t, r)
    \/ \E q \in Requests :
           \/ RevokeSelect(q)
           \/ RevokeCommit(q)
    \/ \E d \in {1, RefreshTicks} : Advance(d)

SpecLogout == LoggedInInit /\ [][LogoutNext]_vars

AccessTokensNext ==
    \/ \E q \in Requests, t \in PresentableTokens, r \in {1} :
           LogoutBlacklist(q, t, r)
    \/ \E q \in Requests :
           \/ RevokeSelect(q)
           \/ RevokeCommit(q)
    \/ \E q \in Requests, t \in PresentableTokens, a \in ClientAddresses : Me(q, t, a)
    \/ \E q \in Requests :
           \/ GetCurrentUserGet(q)
           \/ GetCurrentUserSelect(q)
           \/ GetCurrentUserCache(q)
    \/ \E d \in {1, AccessSeconds * TicksPerSecond - 2} : Advance(d)

\* the limiter of GET /users/me has counted nothing, or has just counted
\* RATE_LIMIT requests of the client (requests with a token that does not
\* decode are counted like any other, and leave no other trace)
AccessTokensInit ==
    /\ now = 0
    /\ users = RegisteredUsers
    /\ user_seq = RegisteredSeq
    /\ refresh_tokens = LoggedInTokens(0)
    /\ contacts = {}
    /\ contact_seq = 0
    /\ redis = <<>>
    /\ jwts = LoggedInJwts(0)
    /\ resp = NoResponse
    /\ advances = 0
    /\ served = 0
    /\ inflight = [q \in Requests |-> Idle]
    /\ cloudinary = <<>>
    /\ limits \in {NoHits,
                   [a \in ClientAddresses |->
                       [count |-> RATE_LIMIT,
                        expire_at |-> RATE_LIMIT_SECONDS * TicksPerSecond]]}

SpecAccessTokens == AccessTokensInit /\ [][AccessTokensNext]_vars

----------------------------------------------------------------------------
(* Passwords: password reset and login for two registered users, of whom    *)
(* the first has confirmed the e-mail address and the second has not        *)

\* e-mail addresses a reset is requested for: the users' and a stranger's
ResetEmails == Emails \cup {"carol@x.com"}

\* a token signed with the server's key that carries no subject
NoSubToken == jwt_encode([exp |-> AccessSeconds], SECRET_KEY)

PasswordsNext ==
    \/ \E q \in Requests, e \in ResetEmails : RequestResetPassword(q, e)
    \/ \E q \in Requests :
           \/ SendPasswordResetEmailSelect(q)
           \/ SendResetPasswordEmail(q)
    \/ \E q \in Requests, t \in PresentableTokens \cup {NoSubToken}, p \in Passwords :
           ResetPassword(q, t, p)
    \/ \E q \in Requests :
           \/ ResetPasswordSelectRepo(q)
           \/ ResetPasswordCommit(q)
    \/ \E q \in Requests, u \in Usernames, p \in Passwords : LoginSelect(q, u, p)
    \/ \E q \in Requests :
           \/ LoginInsert(q)
           \/ LoginRefresh(q)
    \/ \E d \in {1} : Advance(d)

PasswordsInit ==
    /\ now = 0
    /\ users = [RegisteredUsers EXCEPT ![2].confirmed = FALSE]
    /\ user_seq = RegisteredSeq
    /\ refresh_tokens = <<>>
    /\ contacts = {}
    /\ contact_seq = 0
    /\ redis = <<>>
    /\ jwts = RegistrationTokens
    /\ resp = NoResponse
    /\ advances = 0
    /\ served = 0
    /\ inflight = [q \in Requests |-> Idle]
    /\ cloudinary = <<>>
    /\ limits = NoHits

SpecPasswords == PasswordsInit /\ [][PasswordsNext]_vars

----------------------------------------------------------------------------
(* Avatars: an administrator whose row was put into the database by the    *)
(* operator (no route creates one), and the users that register            *)

SeededAdmin ==
    [create_user(<<>>, 1, "root", "root@x.com", _hash_password("secret1"),
                 Gravatar("root@x.com"), "admin")
        EXCEPT ![1].confirmed = TRUE]

AvatarsInit ==
    /\ now = 0
    /\ users = SeededAdmin
    /\ user_seq = Len(SeededAdmin)
    /\ refresh_tokens = <<>>
    /\ contacts = {}
    /\ contact_seq = 0
    /\ redis = <<>>
    /\ jwts = {}
    /\ resp = NoResponse
    /\ advances = 0
    /\ served = 0
    /\ inflight = [q \in Requests |-> Idle]
    /\ cloudinary = <<>>
    /\ limits = NoHits

AvatarsNext ==
    \/ \E q \in Requests, u \in Usernames, e \in Emails, p \in {"secret1"} :
           RegisterSelectUsername(q, u, e, p)
    \/ \E q \in Requests :
           \/ RegisterSelectEmail(q)
           \/ RegisterInsert(q)
           \/ RegisterRefresh(q)
           \/ RegisterSendEmail(q)
    \/ \E q \in Requests, t \in PresentableTokens : ConfirmedEmailSelect(q, t)
    \/ \E q \in Requests :
           \/ ConfirmedEmailSelectRepo(q)
           \/ ConfirmedEmailCommit(q)
    \/ \E q \in Requests, u \in Usernames \cup {"root"}, p \in {"secret1"} :
           LoginSelect(q, u, p)
    \/ \E q \in Requests :
           \/ LoginInsert(q)
           \/ LoginRefresh(q)
    \/ \E q \in Requests, t \in PresentableTokens, f \in {"a.png", "b.png"} :
           UpdateAvatar(q, t, f)
    \/ \E q \in Requests :
           \/ GetCurrentUserGet(q)
           \/ GetCurrentUserSelect(q)
           \/ GetCurrentUserCache(q)
    \/ \E q \in Requests :
           \/ UpdateAvatarSelect(q)
           \/ UpdateAvatarSelectRepo(q)
           \/ UpdateAvatarCommit(q)
           \/ UpdateAvatarRefresh(q)

SpecAvatars == AvatarsInit /\ [][AvatarsNext]_vars

----------------------------------------------------------------------------
(* Tokens that reset_password accepts: registration, e-mail confirmation,  *)
(* login and reset_password from the empty database.  No password reset is *)
(* ever requested, so send_reset_password_email issues no token: the       *)
(* tokens in circulation are the e-mail confirmation tokens of register    *)
(* and the access tokens of login.                                         *)

ResetTokensNext ==
    \/ \E q \in Requests, u \in Usernames, e \in Emails, p \in Passwords :
           RegisterSelectUsername(q, u, e, p)
    \/ \E q \in Requests :
           \/ RegisterSelectEmail(q)
           \/ RegisterInsert(q)
           \/ RegisterRefresh(q)
           \/ RegisterSendEmail(q)
    \/ \E q \in Requests, t \in PresentableTokens : ConfirmedEmailSelect(q, t)
    \/ \E q \in Requests :
           \/ ConfirmedEmailSelectRepo(q)
           \/ ConfirmedEmailCommit(q)
    \/ \E q \in Requests, u \in Usernames, p \in Passwords : LoginSelect(q, u, p)
    \/ \E q \in Requests :
           \/ LoginInsert(q)
           \/ LoginRefresh(q)
    \/ \E q \in Requests, t \in PresentableTokens, p \in Passwords :
           ResetPassword(q, t, p)
    \/ \E q \in Requests :
           \/ ResetPasswordSelectRepo(q)
           \/ ResetPasswordCommit(q)

SpecResetTokens == Init /\ [][ResetTokensNext]_vars

----------------------------------------------------------------------------
(* Confirmation e-mails: registration, confirmation and request_email from *)
(* the empty database, for the users' addresses and a stranger's.          *)

RequestEmailNext ==
    \/ \E q \in Requests, u \in Usernames, e \in Emails, p \in {"secret1"} :
           RegisterSelectUsername(q, u, e, p)
    \/ \E q \in Requests :
           \/ RegisterSelectEmail(q)
           \/ RegisterInsert(q)
           \/ RegisterRefresh(q)
           \/ RegisterSendEmail(q)
    \/ \E q \in Requests, t \in PresentableTokens : ConfirmedEmailSelect(q, t)
    \/ \E q \in Requests :
           \/ ConfirmedEmailSelectRepo(q)
           \/ ConfirmedEmailCommit(q)
    \/ \E q \in Requests, e \in ResetEmails : RequestEmail(q, e)
    \/ \E q \in Requests : RequestEmailSend(q)
    \/ \E d \in {RefreshTicks} : Advance(d)

SpecRequestEmail == Init /\ [][RequestEmailNext]_vars

----------------------------------------------------------------------------
(* Contacts: the contact routes for two registered, confirmed users that   *)
(* have logged in at time 0.  The requests carry the access token of one   *)
(* of the two users.                                                       *)

AccessTokens == {create_access_token(RegisteredUsers[i].username, 0) : i \in 1..2}

ContactsNext ==
    \/ /\ served < MaxContactServed
       /\ \E q \in Requests, t \in AccessTokens :
              \/ \E b \in CreateBodies : CreateContact(q, t, b)
              \/ \E i \in ContactIds : GetContact(q, t, i)
              \/ \E i \in ContactIds : UpdateContact(q, t, i, [first_name |-> "Bea",
                                                 additional_info |-> "vip"])
              \/ \E i \in ContactIds : DeleteContact(q, t, i)
    \/ \E q \in Requests :
           \/ GetCurrentUserGet(q)
           \/ GetCurrentUserSelect(q)
           \/ GetCurrentUserCache(q)
    \/ \E q \in Requests :
           \/ CreateContactInsert(q)
           \/ CreateContactRefresh(q)
    \/ \E q \in Requests : GetContactSelect(q)
    \/ \E q \in Requests :
           \/ UpdateContactSelect(q)
           \/ UpdateContactSelectRepo(q)
           \/ UpdateContactCommit(q)
           \/ UpdateContactRefresh(q)
    \/ \E q \in Requests :
           \/ DeleteContactSelect(q)
           \/ DeleteContactSelectRepo(q)
           \/ DeleteContactCommit(q)
    \/ \E d \in {1} : now < MaxContactTicks /\ Advance(d)

SpecContacts == LoggedInInit /\ [][ContactsNext]_vars

----------------------------------------------------------------------------
(* Updates: one user creates, updates and deletes contacts                 *)

UpdatesNext ==
    \/ /\ served < MaxContactServed
       /\ \E q \in Requests, t \in {create_access_token(RegisteredUsers[1].username, 0)} :
              \/ \E b \in CreateBodies : CreateContact(q, t, b)
              \/ \E i \in ContactIds, b \in UpdateBodies : UpdateContact(q, t, i, b)
              \/ \E i \in ContactIds : DeleteContact(q, t, i)
    \/ \E q \in Requests :
           \/ GetCurrentUserGet(q)
           \/ GetCurrentUserSelect(q)
           \/ GetCurrentUserCache(q)
    \/ \E q \in Requests :
           \/ CreateContactInsert(q)
           \/ CreateContactRefresh(q)
    \/ \E q \in Requests :
           \/ UpdateContactSelect(q)
           \/ UpdateContactSelectRepo(q)
           \/ UpdateContactCommit(q)
           \/ UpdateContactRefresh(q)
    \/ \E q \in Requests :
           \/ DeleteContactSelect(q)
           \/ DeleteContactSelectRepo(q)
           \/ DeleteContactCommit(q)
    \/ \E d \in {1} : now < MaxContactTicks /\ Advance(d)

SpecUpdates == LoggedInInit /\ [][UpdatesNext]_vars

----------------------------------------------------------------------------
(* Listing: the list query over the contacts the two users create          *)

ListingNext ==
    \/ /\ served < MaxContactServed
       /\ \E q \in Requests, t \in AccessTokens :
              \/ \E b \in CreateBodies : CreateContact(q, t, b)
              \/ \E l \in {1, 2}, o \in {0, 1}, s \in {NoneStr, "LEE", "c1@", "_", "\\e"} :
                     GetContacts(q, t, l, o, s)
    \/ \E q \in Requests :
           \/ GetCurrentUserGet(q)
           \/ GetCurrentUserSelect(q)
           \/ GetCurrentUserCache(q)
    \/ \E q \in Requests :
           \/ CreateContactInsert(q)
           \/ CreateContactRefresh(q)
    \/ \E q \in Requests : GetContactsSelect(q)

SpecListing == LoggedInInit /\ [][ListingNext]_vars

----------------------------------------------------------------------------
(* Birthdays: the upcoming-birthdays query on any day of a range that      *)
(* covers a turn of the year and a turn of a month                         *)

BirthdaysInit ==
    /\ now \in {k * DayTicks : k \in 0..MaxDays}
    /\ users = RegisteredUsers
    /\ user_seq = RegisteredSeq
    /\ refresh_tokens = LoggedInTokens(now)
    /\ contacts = {}
    /\ contact_seq = 0
    /\ redis = <<>>
    /\ jwts = LoggedInJwts(now)
    /\ resp = NoResponse
    /\ advances = 0
    /\ served = 0
    /\ inflight = [q \in Requests |-> Idle]
    /\ cloudinary = <<>>
    /\ limits = NoHits

BirthdaysNext ==
    \/ /\ served < MaxBirthdayServed
       /\ \E q \in Requests,
             t \in {create_access_token(RegisteredUsers[i].username, now) : i \in 1..2} :
              \/ \E e \in ContactEmails,
                        d \in {<<1990, 12, 20>>, <<1990, 12, 31>>, <<1985, 1, 3>>,
                               <<1985, 2, 1>>} :
                         CreateContact(q, t, [first_name |-> "Ann", last_name |-> "Lee",
                                              email |-> e, phone_number |-> "55555",
                                              birthday |-> d,
                                              additional_info |-> NoneStr])
              \/ GetUpcomingBirthdays(q, t)
    \/ \E q \in Requests :
           \/ GetCurrentUserGet(q)
           \/ GetCurrentUserSelect(q)
           \/ GetCurrentUserCache(q)
    \/ \E q \in Requests :
           \/ CreateContactInsert(q)
           \/ CreateContactRefresh(q)
    \/ \E q \in Requests : GetUpcomingBirthdaysSelect(q)

SpecBirthdays == BirthdaysInit /\ [][BirthdaysNext]_vars

----------------------------------------------------------------------------
(* The whole API from the empty database *)

Next ==
    \/ \E q \in Requests, u \in Usernames, e \in Emails, p \in Passwords :
           RegisterSelectUsername(q, u, e, p)
    \/ \E q \in Requests :
           \/ RegisterSelectEmail(q)
           \/ RegisterInsert(q)
           \/ RegisterRefresh(q)
           \/ RegisterSendEmail(q)
    \/ \E q \in Requests, t \in PresentableTokens : ConfirmedEmailSelect(q, t)
    \/ \E q \in Requests :
           \/ ConfirmedEmailSelectRepo(q)
           \/ ConfirmedEmailCommit(q)
    \/ \E q \in Requests, e \in ResetEmails : RequestEmail(q, e)
    \/ \E q \in Requests : RequestEmailSend(q)
    \/ \E q \in Requests, u \in Usernames, p \in Passwords : LoginSelect(q, u, p)
    \/ \E q \in Requests :
           \/ LoginInsert(q)
           \/ LoginRefresh(q)
    \/ \E q \in Requests, r \in PresentableRefreshTokens : RefreshSelectToken(q, r)
    \/ \E q \in Requests :
           \/ RefreshSelectUser(q)
           \/ RefreshInsert(q)
           \/ RefreshRefresh(q)
    \/ \E q \in Requests, t \in PresentableTokens, r \in PresentableRefreshTokens :
           LogoutBlacklist(q, t, r)
    \/ \E q \in Requests :
           \/ RevokeSelect(q)
           \/ RevokeCommit(q)
    \/ \E q \in Requests, t \in PresentableTokens, a \in ClientAddresses : Me(q, t, a)
    \/ \E q \in Requests :
           \/ GetCurrentUserGet(q)
           \/ GetCurrentUserSelect(q)
           \/ GetCurrentUserCache(q)
    \/ \E q \in Requests, e \in ResetEmails : RequestResetPassword(q, e)
    \/ \E q \in Requests :
           \/ SendPasswordResetEmailSelect(q)
           \/ SendResetPasswordEmail(q)
    \/ \E q \in Requests, t \in PresentableTokens, p \in Passwords :
           ResetPassword(q, t, p)
    \/ \E q \in Requests :
           \/ ResetPasswordSelectRepo(q)
           \/ ResetPasswordCommit(q)
    \/ \E q \in Requests, t \in PresentableTokens, f \in {"a.png", "b.png"} :
           UpdateAvatar(q, t, f)
    \/ \E q \in Requests :
           \/ UpdateAvatarSelect(q)
           \/ UpdateAvatarSelectRepo(q)
           \/ UpdateAvatarCommit(q)
           \/ UpdateAvatarRefresh(q)
    \/ \E q \in Requests, t \in PresentableTokens, b \in CreateBodies :
           CreateContact(q, t, b)
    \/ \E q \in Requests :
           \/ CreateContactInsert(q)
           \/ CreateContactRefresh(q)
    \/ \E q \in Requests, t \in PresentableTokens, i \in ContactIds : GetContact(q, t, i)
    \/ \E q \in Requests : GetContactSelect(q)
    \/ \E q \in Requests, t \in PresentableTokens, i \in ContactIds, b \in UpdateBodies :
           UpdateContact(q, t, i, b)
    \/ \E q \in Requests :
           \/ UpdateContactSelect(q)
           \/ UpdateContactSelectRepo(q)
           \/ UpdateContactCommit(q)
           \/ UpdateContactRefresh(q)
    \/ \E q \in Requests, t \in PresentableTokens, i \in ContactIds :
           DeleteContact(q, t, i)
    \/ \E q \in Requests :
           \/ DeleteContactSelect(q)
           \/ DeleteContactSelectRepo(q)
           \/ DeleteContactCommit(q)
    \/ \E q \in Requests, t \in PresentableTokens : GetUpcomingBirthdays(q, t)
    \/ \E q \in Requests : GetUpcomingBirthdaysSelect(q)
    \/ \E q \in Requests, t \in PresentableTokens, l \in {1, 2}, o \in {0, 1},
          s \in {NoneStr, "LEE", "c1@", "_", "\\e"} : GetContacts(q, t, l, o, s)
    \/ \E q \in Requests : GetContactsSelect(q)
    \/ \E d \in {1, AccessSeconds * TicksPerSecond - 2, RefreshTicks} : Advance(d)

Spec == Init /\ [][Next]_vars
----------------------------------------------------------------------------
(* Properties of the token life cycle (SpecSessions) *)

\* the request in slot q is answered by this step: resp' is its response
Answers(q, op) ==
    /\ inflight[q].pc # "idle"
    /\ inflight[q].op = op
    /\ inflight'[q] = Idle

RefreshOk == resp.op = "refresh" /\ resp.status = 200

\* C1: a refresh with refresh token R that answers 200 returns a refresh token
\* that differs from R; when the answer leaves, R is revoked and not active
\* (validate_refresh_token(R) fails with 401) and the returned token is active;
\* a refresh that presents a revoked token answers 401.
C1_RefreshRotates ==
    /\ [][\A q \in Requests :
              (Answers(q, "refresh") /\ resp'.status = 200) =>
                  LET R == resp'.args.refresh_token
                      T == resp'.body.refresh_token
                      old == validate_refresh_token(users', refresh_tokens', R, now')
                      rec == get_by_token_hash(refresh_tokens', _hash_token(T))
                  IN  /\ T # R
                      /\ get_active_token(refresh_tokens', _hash_token(R), now') = 0
                      /\ ~old.ok /\ old.status = 401
                      /\ rec # 0
                      /\ now' < refresh_tokens'[rec].expired_at
                             => get_active_token(refresh_tokens', _hash_token(T), now') = rec]_vars
    /\ [][\A q \in Requests, R \in RawTokens :
              LET i == get_by_token_hash(refresh_tokens, _hash_token(R))
              IN  (/\ RefreshSelectToken(q, R)
                   /\ i # 0
                   /\ refresh_tokens[i].revoked_at # NULL)
                      => /\ resp' = Response("refresh", [refresh_token |-> R], 401,
                                             "Invalid refresh token", <<>>)
                         /\ inflight' = inflight]_vars

C1_Witness ==
    /\ RefreshOk
    /\ validate_refresh_token(users, refresh_tokens, resp.body.refresh_token, now).ok
    /\ LET i == get_by_token_hash(refresh_tokens, _hash_token(resp.args.refresh_token))
       IN  i # 0 /\ refresh_tokens[i].revoked_at # NULL

\* the instants at which a record's activity is probed
ProbeTimes(rec) == {0, now, rec.expired_at - 1}

\* the owner of the record stored under the hash of a raw token
OwnerOf(rts, raw) == rts[get_by_token_hash(rts, _hash_token(raw))].user_id

\* C8: when create_refresh_token has returned raw token T (in login and in
\* refresh), the record under hash(T) is found by get_by_token_hash, has
\* revoked_at unset, belongs to the requesting user, and get_active_token
\* reports it at every current time before its expired_at.
C8_IssuedTokenStored ==
    [][\A q \in Requests :
           (LoginInsert(q) \/ RefreshInsert(q)) =>
               LET T == inflight'[q].body.refresh_token
                   requesting_user ==
                       IF inflight[q].op = "login"
                       THEN users[get_by_username(users, inflight[q].args.username)].id
                       ELSE OwnerOf(refresh_tokens, inflight[q].args.refresh_token)
                   h == _hash_token(T)
                   i == get_by_token_hash(refresh_tokens', h)
               IN  /\ i # 0
                   /\ get_by_token_hash(refresh_tokens, h) = 0
                   /\ refresh_tokens'[i].token_hash = h
                   /\ refresh_tokens'[i].revoked_at = NULL
                   /\ refresh_tokens'[i].user_id = requesting_user
                   /\ \A t \in ProbeTimes(refresh_tokens'[i]) :
                          t < refresh_tokens'[i].expired_at
                              => get_active_token(refresh_tokens', h, t) = i]_vars

\* a refresh of the second user has answered with a token that is active
C8_Witness ==
    /\ RefreshOk
    /\ OwnerOf(refresh_tokens, resp.body.refresh_token) = RegisteredUsers[2].id
    /\ OwnerOf(refresh_tokens, resp.args.refresh_token) = RegisteredUsers[2].id
    /\ get_active_token(refresh_tokens, _hash_token(resp.body.refresh_token), now) # 0

\* a refresh-token record is in a terminal state at time t
Terminal(rec, t) == rec.revoked_at # NULL \/ rec.expired_at <= t

\* C13: a revoked or expired refresh-token record is not active, and no step
\* makes it active again: revoked_at, once set, and expired_at never change.
C13_TerminalStatesStay ==
    /\ [](\A i \in 1..Len(refresh_tokens) :
              Terminal(refresh_tokens[i], now)
                  => get_active_token(refresh_tokens,
                                      refresh_tokens[i].token_hash, now) = 0)
    /\ [][\A i \in 1..Len(refresh_tokens) :
              /\ refresh_tokens'[i].expired_at = refresh_tokens[i].expired_at
              /\ refresh_tokens[i].revoked_at # NULL
                     => refresh_tokens'[i].revoked_at = refresh_tokens[i].revoked_at
              /\ Terminal(refresh_tokens[i], now)
                     => /\ Terminal(refresh_tokens'[i], now')
                        /\ get_active_token(refresh_tokens',
                                            refresh_tokens[i].token_hash, now') = 0]_vars

\* C15: validate_refresh_token(raw) returns a user exactly when a record with
\* the hash of raw exists, is not revoked, expires strictly after the current
\* time and its user exists; the user returned is the record's owner;
\* otherwise it fails with 401; it changes no stored state.
C15_ValidateIff ==
    /\ [](\A raw \in RawTokens \cup {UnknownRefreshToken} :
              LET v == validate_refresh_token(users, refresh_tokens, raw, now)
                  S == {i \in 1..Len(refresh_tokens) :
                           /\ refresh_tokens[i].token_hash = <<"sha256", raw>>
                           /\ refresh_tokens[i].revoked_at = NULL
                           /\ refresh_tokens[i].expired_at > now
                           /\ \E u \in 1..Len(users) :
                                  users[u].id = refresh_tokens[i].user_id}
              IN  /\ v.ok <=> S # {}
                  /\ v.ok => \E i \in S : v.value = refresh_tokens[i].user_id
                  /\ ~v.ok => v.status = 401)
    /\ [][\A q \in Requests, raw \in RawTokens \cup {UnknownRefreshToken} :
              RefreshSelectToken(q, raw) =>
                  LET v == validate_refresh_token(users, refresh_tokens, raw, now)
                  IN  /\ IF v.ok
                         THEN /\ inflight'[q].pc = "refresh_user"
                              /\ inflight'[q].user_id = v.value
                              /\ resp' = resp
                         ELSE /\ resp' = Response("refresh", [refresh_token |-> raw],
                                                  401, "Invalid refresh token", <<>>)
                              /\ inflight' = inflight
                      /\ UNCHANGED <<users, refresh_tokens, redis, contacts, jwts,
                                     cloudinary, limits>>]_vars
    /\ [][\A q \in Requests :
              RefreshSelectUser(q) =>
                  /\ inflight'[q].pc = "refresh_insert"
                  /\ inflight'[q].user.id = inflight[q].user_id
                  /\ UNCHANGED <<users, refresh_tokens, redis, contacts, jwts, cloudinary,
                                 limits>>]_vars

C15_Witness ==
    /\ resp.op = "refresh"
    /\ resp.status = 401
    /\ LET i == get_by_token_hash(refresh_tokens, _hash_token(resp.args.refresh_token))
       IN  /\ i # 0
           /\ refresh_tokens[i].revoked_at = NULL
           /\ refresh_tokens[i].expired_at = now

\* C23: of the refresh requests that carry the same refresh token, at most one
\* answers 200 with a new token pair, however their round trips interleave.
C23_RefreshExchangedOnce ==
    [][\A q \in Requests :
           (Answers(q, "refresh") /\ resp'.status = 200) =>
               ~(/\ RefreshOk
                 /\ resp.args.refresh_token = resp'.args.refresh_token)]_vars

----------------------------------------------------------------------------
(* Properties of logout and revocation (SpecLogout) *)

\* revoke_refresh_token returns in this step of the request in slot q
RevokeReturns(q) ==
    /\ inflight[q].pc \in {"revoke_select", "revoke_commit"}
    /\ inflight'[q] = Idle

\* C7: when revoke_refresh_token has returned for an issued token,
\* get_active_token for its hash returns nothing at any current time, while
\* get_by_token_hash still returns the record, with revoked_at set; a revoked
\* record is never active; and no step ever deletes or re-keys a record.
C7_RevokedNotDeleted ==
    /\ [][\A q \in Requests :
              RevokeReturns(q) =>
                  LET h == _hash_token(inflight[q].args.refresh_token)
                      i == get_by_token_hash(refresh_tokens', h)
                  IN  i # 0 =>
                        /\ refresh_tokens'[i].token_hash = h
                        /\ refresh_tokens'[i].revoked_at # NULL
                        /\ \A t \in ProbeTimes(refresh_tokens'[i]) :
                               get_active_token(refresh_tokens', h, t) = 0]_vars
    /\ [](\A i \in 1..Len(refresh_tokens) :
              refresh_tokens[i].revoked_at # NULL =>
                  \A t \in ProbeTimes(refresh_tokens[i]) :
                      get_active_token(refresh_tokens, refresh_tokens[i].token_hash, t) = 0)
    /\ [][/\ Len(refresh_tokens') >= Len(refresh_tokens)
          /\ \A i \in 1..Len(refresh_tokens) :
                 /\ refresh_tokens'[i].id = refresh_tokens[i].id
                 /\ refresh_tokens'[i].token_hash = refresh_tokens[i].token_hash
                 /\ refresh_tokens'[i].user_id = refresh_tokens[i].user_id
                 /\ refresh_tokens[i].revoked_at # NULL
                        => refresh_tokens'[i].revoked_at # NULL]_vars

C7_Witness ==
    /\ resp.op = "logout" /\ resp.status = 204
    /\ LET i == get_by_token_hash(refresh_tokens, _hash_token(resp.args.refresh_token))
       IN  /\ i # 0
           /\ refresh_tokens[i].revoked_at = now
           /\ now < refresh_tokens[i].expired_at

\* C14: revoke_refresh_token(raw) sets revoked_at of the matching record to the
\* current time when it finds the record not revoked, and touches nothing
\* else; when it finds the record revoked, or finds no record, it changes no
\* stored state (the revoked_at it found is kept) and raises no error: the
\* logout that called it answers 204.
C14_RevokeIdempotent ==
    [][\A q \in Requests :
           LET raw == inflight[q].args.refresh_token
               i == get_by_token_hash(refresh_tokens, _hash_token(raw))
           IN  /\ RevokeSelect(q) =>
                     /\ UNCHANGED <<users, refresh_tokens, redis, contacts, cloudinary,
                                    limits>>
                     /\ IF i # 0 /\ refresh_tokens[i].revoked_at = NULL
                        THEN inflight'[q].pc = "revoke_commit"
                        ELSE /\ inflight'[q] = Idle
                             /\ resp'.op = inflight[q].op
                             /\ resp'.status = inflight[q].status
                             /\ resp'.op = "logout" => resp'.status = 204
               /\ RevokeCommit(q) =>
                     /\ i # 0
                     /\ refresh_tokens' = [refresh_tokens EXCEPT ![i].revoked_at = now]
                     /\ UNCHANGED <<users, redis, contacts>>
                     /\ inflight'[q] = Idle
                     /\ resp'.status = inflight[q].status]_vars

C14_Witness ==
    /\ resp.op = "logout"
    /\ resp.status = 204
    /\ LET i == get_by_token_hash(refresh_tokens, _hash_token(resp.args.refresh_token))
       IN  /\ i # 0
           /\ refresh_tokens[i].revoked_at # NULL
           /\ refresh_tokens[i].revoked_at < now
    /\ \E t \in jwts : /\ t # resp.args.token
                       /\ bl_key(t) \in DOMAIN redis
                       /\ redis[bl_key(t)].expire_at < redis[bl_key(resp.args.token)].expire_at

\* C28: a logout whose access token cannot be decoded answers 401, writes no
\* blacklist entry and leaves the refresh-token records unchanged; a logout
\* that goes on has written the blacklist entry bl:<token>, live at that
\* moment; and when it answers, it answers 204 and the record of the
\* supplied refresh token, if there is one, is revoked and not active.
C28_LogoutAllOrNothing ==
    /\ [][\A q \in Requests, token \in PresentableTokens,
             raw \in PresentableRefreshTokens :
              LogoutBlacklist(q, token, raw) =>
                  /\ ~jwt_decode(token, SECRET_KEY, now).ok =>
                         /\ resp' = Response("logout",
                                             [token |-> token, refresh_token |-> raw],
                                             401, "Token wrong", <<>>)
                         /\ redis' = redis
                         /\ inflight' = inflight
                  /\ refresh_tokens' = refresh_tokens
                  /\ inflight'[q].pc # "idle" =>
                         redis_exists(redis', bl_key(token), now)]_vars
    /\ [][\A q \in Requests :
              Answers(q, "logout") =>
                  LET token == inflight[q].args.token
                      raw == inflight[q].args.refresh_token
                  IN  /\ resp' = Response("logout", inflight[q].args, 204, "", <<>>)
                      /\ bl_key(token) \in DOMAIN redis'
                      /\ ~validate_refresh_token(users', refresh_tokens', raw, now').ok
                      /\ \A i \in 1..Len(refresh_tokens') :
                             refresh_tokens'[i].token_hash = _hash_token(raw)
                                 => refresh_tokens'[i].revoked_at # NULL]_vars

\* a logout answered 401 with a refresh token that is still active, after an
\* earlier logout that blacklisted an access token
C28_Witness ==
    /\ resp.op = "logout"
    /\ resp.status = 401
    /\ validate_refresh_token(users, refresh_tokens, resp.args.refresh_token, now).ok
    /\ \E t \in jwts : redis_exists(redis, bl_key(t), now)

\* C29: a logout authenticated by user u's access token marks a refresh-token
\* record revoked only if the record belongs to u; a record of another user
\* stays as it was.
C29_LogoutRevokesOwnTokenOnly ==
    [][\A q \in Requests :
           (RevokeCommit(q) /\ inflight[q].op = "logout") =>
               \A i \in 1..Len(refresh_tokens) :
                   refresh_tokens'[i] # refresh_tokens[i]
                       => refresh_tokens[i].user_id =
                              users[get_by_username(users,
                                        inflight[q].args.token.payload.sub)].id]_vars

----------------------------------------------------------------------------
(* Properties of get_current_user, the blacklist and the user cache         *)
(* (SpecAccessTokens)                                                      *)

\* request q is a GET /users/me with token that the rate limiter lets pass:
\* the route calls get_current_user(token)
Calls(q, token) ==
    \E a \in ClientAddresses : Me(q, token, a) /\ limiter_hit(limits, a, now).ok

\* get_current_user of request q returns user to its route
Returns(q, user) ==
    Authenticated(q, inflight[q], user,
                  IF "tx" \in DOMAIN inflight[q] THEN inflight[q].tx ELSE NoTransaction)

\* C2: once a logout with access token A and refresh token R has answered 204,
\* R is revoked, and every get_current_user(A) issued while A has not reached
\* its expiry fails with 401, whatever the user cache holds.
C2_LoggedOutTokenRejected ==
    /\ []((resp.op = "logout" /\ resp.status = 204) =>
              ~validate_refresh_token(users, refresh_tokens,
                                      resp.args.refresh_token, now).ok)
    /\ [][\A q \in Requests :
              (/\ resp.op = "logout"
               /\ resp.status = 204
               /\ Calls(q, resp.args.token)
               /\ jwt_decode(resp.args.token, SECRET_KEY, now).ok)
                  => /\ resp'.op = "get_current_user"
                     /\ resp'.status = 401
                     /\ inflight' = inflight]_vars

\* C10: get_current_user(token) resolves in this order: blacklisted -> 401;
\* else a cached payload is returned as it is, without decoding; else the
\* token is decoded and the user loaded by subject (401 when decoding fails,
\* the subject is missing or no such user exists), cached for the token's
\* remaining lifetime and returned.
C10_ResolutionOrder ==
    [][\A q \in Requests :
           /\ \A token \in PresentableTokens :
                  Calls(q, token) =>
                      /\ redis' = redis
                      /\ IF redis_exists(redis, bl_key(token), now)
                         THEN /\ resp'.op = "get_current_user"
                              /\ resp'.args.token = token
                              /\ resp'.status = 401
                              /\ inflight' = inflight
                         ELSE inflight'[q].pc = "get_current_user_get"
           /\ GetCurrentUserGet(q) =>
                  LET cached == redis_get(redis, user_key(inflight[q].args.token), now)
                  IN  /\ redis' = redis
                      /\ IF cached # <<>>
                         THEN Returns(q, User(json_loads(cached[1])))
                         ELSE inflight'[q].pc = "get_current_user_select"
           /\ GetCurrentUserSelect(q) =>
                  LET token == inflight[q].args.token
                      d == jwt_decode(token, SECRET_KEY, now)
                      uid == IF d.ok /\ "sub" \in DOMAIN d.payload
                             THEN get_by_username(users, d.payload.sub) ELSE 0
                  IN  /\ redis' = redis
                      /\ IF uid = 0
                         THEN resp'.status = 401 /\ inflight'[q] = Idle
                         ELSE /\ inflight'[q].pc = "get_current_user_cache"
                              /\ inflight'[q].user = users[uid]
           /\ GetCurrentUserCache(q) =>
                  LET token == inflight[q].args.token
                      key == user_key(token)
                  IN  /\ resp'.status = 200
                      /\ resp'.body = inflight[q].user
                      /\ key \in DOMAIN redis'
                      /\ redis'[key].value = json_dumps(user_data(inflight[q].user))
                      \* TTL = the remaining lifetime, in whole seconds
                      /\ redis'[key].expire_at <= token.payload.exp * TicksPerSecond
                      /\ redis'[key].expire_at >
                             (token.payload.exp - 1) * TicksPerSecond]_vars

\* C11: get_current_user for a valid token that is not blacklisted and whose
\* user exists answers 200 with the user read from the database, also when
\* populating the user cache fails.
C11_CacheFailureTolerated ==
    [][\A q \in Requests :
           GetCurrentUserCache(q) =>
               /\ resp'.op = "get_current_user"
               /\ resp'.status = 200
               /\ resp'.body.id =
                      users[get_by_username(users,
                                inflight[q].args.token.payload.sub)].id]_vars

\* C12: from the logout that blacklists an access token until the token's
\* own expiry, the entry bl:token is live: at no instant has the entry
\* expired while the token still decodes.
C12_BlacklistCoversLifetime ==
    \A token \in jwts :
        (bl_key(token) \in DOMAIN redis /\ jwt_decode(token, SECRET_KEY, now).ok)
            => redis_exists(redis, bl_key(token), now)

----------------------------------------------------------------------------
(* Properties of registration and login (SpecAccounts) *)

\* some persisted user has this username, or this e-mail
Persisted(username, email) ==
    \E i \in 1..Len(users) : users[i].username = username \/ users[i].email = email

\* C4: a register request whose username, or whose e-mail, is that of a user
\* persisted when the request arrives fails with 409 and persists no user: the
\* rows of users keep their username and e-mail, the look-up of a persisted
\* username answers 409, so does the look-up of a persisted e-mail, and a row
\* is only inserted for a username and an e-mail that no row has.
C4_DuplicateRegisterConflict ==
    /\ [](\A i, j \in 1..Len(users) :
              i # j => /\ users[i].username # users[j].username
                       /\ users[i].email # users[j].email)
    /\ [][/\ Len(users') >= Len(users)
          /\ \A i \in 1..Len(users) : /\ users'[i].username = users[i].username
                                      /\ users'[i].email = users[i].email]_vars
    /\ [][\A q \in Requests, u \in Usernames, e \in Emails, p \in Passwords :
              (RegisterSelectUsername(q, u, e, p) /\ get_by_username(users, u) # 0)
                  => /\ resp' = Response("register",
                                         [username |-> u, email |-> e, password |-> p],
                                         409, "User already exists", <<>>)
                     /\ users' = users
                     /\ inflight' = inflight]_vars
    /\ [][\A q \in Requests :
              /\ (/\ RegisterSelectEmail(q)
                  /\ get_user_by_email(users, inflight[q].args.email) # 0)
                     => /\ resp' = Response("register", inflight[q].args, 409,
                                            "Email already exists", <<>>)
                        /\ users' = users
                        /\ inflight'[q] = Idle
              /\ (RegisterInsert(q) /\ users' # users)
                     => ~Persisted(inflight[q].args.username, inflight[q].args.email)]_vars

C4_Witness ==
    /\ resp.op = "register"
    /\ resp.status = 409
    /\ resp.detail = "Email already exists"
    /\ \A i \in 1..Len(users) : users[i].username # resp.args.username

\* C5: login for an existing account whose e-mail is not confirmed yields 401
\* "Email address not confirmed", whatever the password; an unknown username,
\* and a wrong password on a confirmed account, yield 401 with the different
\* message "Incorrect username or password".
C5_UnconfirmedLoginMessage ==
    [][\A q \in Requests, u \in Usernames, p \in Passwords :
           LoginSelect(q, u, p) =>
               LET uid == get_by_username(users, u)
                   args == [username |-> u, password |-> p]
               IN  /\ (uid # 0 /\ ~users[uid].confirmed)
                          => resp' = Response("login", args, 401,
                                              "Email address not confirmed", <<>>)
                   /\ (\/ uid = 0
                       \/ /\ uid # 0
                          /\ users[uid].confirmed
                          /\ users[uid].hash_password # _hash_password(p))
                          => resp' = Response("login", args, 401,
                                              "Incorrect username or password", <<>>)]_vars

C5_Witness ==
    /\ resp.op = "login"
    /\ resp.detail = "Email address not confirmed"
    /\ LET uid == get_by_username(users, resp.args.username)
       IN  /\ ~users[uid].confirmed
           /\ users[uid].hash_password # _hash_password(resp.args.password)

\* C6: authenticate returns the user exactly when a user with that username
\* exists, is confirmed and the password verifies against the stored hash;
\* then login issues the tokens for that user and stores one refresh-token
\* record for it.  In every other case login fails with 401, returns no
\* tokens and creates no refresh-token record.
C6_AuthenticateIff ==
    /\ [][\A q \in Requests, u \in Usernames, p \in Passwords :
              LoginSelect(q, u, p) =>
                  LET uid == get_by_username(users, u)
                      good == /\ uid # 0
                              /\ users[uid].confirmed
                              /\ users[uid].hash_password = <<"bcrypt", p>>
                  IN  /\ refresh_tokens' = refresh_tokens
                      /\ jwts' = jwts
                      /\ IF good
                         THEN /\ inflight'[q].pc = "login_insert"
                              /\ inflight'[q].user = users[uid]
                              /\ resp' = resp
                         ELSE /\ resp'.op = "login"
                              /\ resp'.status = 401
                              /\ resp'.body = <<>>
                              /\ inflight' = inflight]_vars
    /\ [][\A q \in Requests :
              /\ LoginInsert(q) =>
                     LET body == inflight'[q].body
                     IN  /\ body.access_token.payload.sub = inflight[q].args.username
                         /\ Len(refresh_tokens') = Len(refresh_tokens) + 1
                         /\ refresh_tokens'[Len(refresh_tokens')].user_id =
                                users[get_by_username(users,
                                          inflight[q].args.username)].id
                         /\ refresh_tokens'[Len(refresh_tokens')].token_hash =
                                _hash_token(body.refresh_token)
              /\ LoginRefresh(q) =>
                     /\ resp' = Response("login", inflight[q].args, 200, "",
                                         inflight[q].body)
                     /\ refresh_tokens' = refresh_tokens]_vars

C6_Witness ==
    /\ resp.op = "login"
    /\ resp.status = 401
    /\ LET uid == get_by_username(users, resp.args.username)
       IN  uid # 0 /\ users[uid].confirmed
    /\ Len(refresh_tokens) > 0

\* C21: register creates a user with confirmed = FALSE and role "user"; a user
\* becomes confirmed only in the commit of a confirmed_email request whose
\* token is signed by the server and has that user's e-mail as subject; a
\* confirmed user stays confirmed; and a login answers 200 only for a
\* confirmed user.
C21_ConfirmedOnlyByEmailToken ==
    /\ []((resp.op = "login" /\ resp.status = 200) =>
            users[get_by_username(users, resp.args.username)].confirmed)
    /\ [][/\ \A i \in 1..Len(users) :
                 /\ users[i].confirmed => users'[i].confirmed
                 /\ (~users[i].confirmed /\ users'[i].confirmed) =>
                        /\ resp'.op = "confirmed_email"
                        /\ resp'.status = 200
                        /\ resp'.args.token.key = SECRET_KEY
                        /\ resp'.args.token.payload.sub = users[i].email
                        /\ \E q \in Requests : ConfirmedEmailCommit(q)
          /\ \A i \in (Len(users) + 1)..Len(users') :
                 /\ \E q \in Requests : RegisterInsert(q)
                 /\ ~users'[i].confirmed
                 /\ users'[i].role = "user"]_vars

C21_Witness ==
    /\ resp.op = "login"
    /\ resp.status = 200
    /\ \E i \in 1..Len(users) : ~users[i].confirmed

\* C24: however concurrent register requests interleave, no two users share a
\* username or an e-mail, and a request that creates no user answers 409.
C24_ConcurrentRegisterConflict ==
    /\ \A i, j \in 1..Len(users) :
           i # j => /\ users[i].username # users[j].username
                    /\ users[i].email # users[j].email
    /\ resp.op = "register" => resp.status \in {201, 409}

----------------------------------------------------------------------------
(* Properties of the password reset (SpecPasswords) *)

\* C16 as stated: reset_password(token, new_password) with a token that decodes
\* and whose subject is the e-mail of an existing user stores a hash of
\* new_password for that user and changes no other user and no other column;
\* afterwards login succeeds with the new password and fails with every other
\* one.
C16_ResetThenLogin ==
    [][\A q \in Requests :
           ResetPasswordCommit(q) =>
               LET new_password == inflight[q].args.new_password
                   uid == get_user_by_email(users, inflight[q].args.token.payload.sub)
               IN  /\ resp' = Response("reset_password", inflight[q].args, 200, "", <<>>)
                   /\ users' = [users EXCEPT
                                   ![uid].hash_password = _hash_password(new_password)]
                   /\ authenticate(users', users[uid].username, new_password).ok
                   /\ \A p \in Passwords \ {new_password} :
                          ~authenticate(users', users[uid].username, p).ok]_vars

\* C16, amended: reset_password(token, new_password) with a token that decodes
\* and whose subject is the e-mail of an existing user stores a hash of
\* new_password for that user and changes no other user and no other column.
\* Afterwards the new password verifies against the stored hash and no other
\* password does; login with the new password succeeds when the user's e-mail
\* is confirmed and is refused with 401 "Email address not confirmed" when it
\* is not, and login with any other password is refused.  A token that does
\* not decode, has no subject or names no user fails with 401, 400 or 404 and
\* leaves the users table unchanged; nothing else changes a stored password.
C16_ResetPassword ==
    /\ [][\A q \in Requests, token \in PresentableTokens \cup {NoSubToken},
             new_password \in Passwords :
              ResetPassword(q, token, new_password) =>
                  LET d == jwt_decode(token, SECRET_KEY, now)
                      has_sub == d.ok /\ "sub" \in DOMAIN token.payload
                      uid == IF has_sub THEN get_user_by_email(users, token.payload.sub)
                             ELSE 0
                  IN  /\ users' = users
                      /\ IF uid # 0
                         THEN /\ inflight'[q].pc = "reset_password_select"
                              /\ resp' = resp
                         ELSE /\ inflight' = inflight
                              /\ resp'.op = "reset_password"
                              /\ resp'.status = IF ~d.ok THEN 401
                                                ELSE IF ~has_sub THEN 400 ELSE 404]_vars
    /\ [][\A q \in Requests :
              ResetPasswordCommit(q) =>
                  LET new_password == inflight[q].args.new_password
                      uid == get_user_by_email(users, inflight[q].args.token.payload.sub)
                      login == authenticate(users', users[uid].username, new_password)
                  IN  /\ resp' = Response("reset_password", inflight[q].args, 200, "", <<>>)
                      /\ users' = [users EXCEPT
                                      ![uid].hash_password = _hash_password(new_password)]
                      /\ \A p \in Passwords :
                             _verify_password(p, users'[uid].hash_password)
                                 <=> p = new_password
                      /\ IF users[uid].confirmed
                         THEN login.ok /\ login.value = uid
                         ELSE /\ ~login.ok
                              /\ login.status = 401
                              /\ login.detail = "Email address not confirmed"
                      /\ \A p \in Passwords \ {new_password} :
                             ~authenticate(users', users[uid].username, p).ok]_vars
    /\ [][users' # users => \E q \in Requests : ResetPasswordCommit(q)]_vars

\* both users have reset their passwords: the confirmed one can log in with
\* the new password, the unconfirmed one cannot
C16_Witness ==
    /\ resp.op = "reset_password"
    /\ resp.status = 200
    /\ users[1].confirmed
    /\ users[1].hash_password = _hash_password("secret2")
    /\ authenticate(users, users[1].username, "secret2").ok
    /\ ~users[2].confirmed
    /\ users[2].hash_password = _hash_password("secret1")
    /\ ~authenticate(users, users[2].username, "secret1").ok

----------------------------------------------------------------------------
(* Properties of the contact routes (SpecContacts, SpecUpdates) *)

\* the id of the user whose name an access token carries, 0 if there is none
TokenUser(token) ==
    LET i == IF token.key = SECRET_KEY /\ "sub" \in DOMAIN token.payload
             THEN get_by_username(users, token.payload.sub)
             ELSE 0
    IN  IF i = 0 THEN 0 ELSE users[i].id

\* the request in slot q targets a contact that is stored for another user
Foreign(q) ==
    \E c \in contacts : /\ c.id = inflight[q].args.contact_id
                        /\ c.user_id # TokenUser(inflight[q].args.token)

\* C3: GET, PUT and DELETE /contacts/{id} issued by an authenticated user on a
\* contact of another user answer 404, as for an id that does not exist, and
\* never the contact's data.
C3_ForeignContactNotFound ==
    [][\A q \in Requests :
           ((GetContactSelect(q) \/ UpdateContactSelect(q) \/ DeleteContactSelect(q))
                /\ Foreign(q))
               => /\ inflight'[q] = Idle
                  /\ resp'.status = 404
                  /\ resp'.body = <<>>]_vars

ContactRow(cs, id) == CHOOSE c \in cs : c.id = id

HasId(cs, id) == \E c \in cs : c.id = id

\* the commit of a PUT /contacts/{id} that goes on to its 200 answer, the row
\* being there
UpdateCommitted(q) ==
    /\ UpdateContactCommit(q)
    /\ inflight'[q].pc = "update_contact_refresh"
    /\ HasId(contacts, inflight[q].args.contact_id)

\* C9 as stated: a successful update sets exactly the supplied fields to the
\* supplied values and leaves every other field of the contact, and every
\* other contact, unchanged.
C9_PartialUpdateExact ==
    [][\A q \in Requests :
           UpdateCommitted(q) =>
               LET id == inflight[q].args.contact_id
                   body == inflight[q].args.body
                   old == ContactRow(contacts, id)
                   new == ContactRow(contacts', id)
               IN  /\ \A col \in DOMAIN old :
                          new[col] = IF col \in DOMAIN body THEN body[col] ELSE old[col]
                   /\ contacts' \ {new} = contacts \ {old}]_vars

\* C9, amended: a successful update writes the supplied fields whose value
\* differs from the value the request has read, and leaves every other field
\* of the contact as it is stored, except updated_at, which becomes the time
\* at which the transaction of the request began when a field is written;
\* every other contact is unchanged.  When the row is as the request has read
\* it, every supplied field ends with the supplied value.
C9_PartialUpdateButUpdatedAt ==
    [][\A q \in Requests :
           UpdateCommitted(q) =>
               LET id == inflight[q].args.contact_id
                   body == inflight[q].args.body
                   read == inflight[q].loaded
                   old == ContactRow(contacts, id)
                   new == ContactRow(contacts', id)
                   written == {col \in DOMAIN body : body[col] # read[col]}
               IN  /\ \A col \in DOMAIN old \ {"updated_at"} :
                          new[col] = IF col \in written THEN body[col] ELSE old[col]
                   /\ new.updated_at = IF written # {} THEN inflight[q].tx
                                       ELSE old.updated_at
                   /\ contacts' \ {new} = contacts \ {old}
                   /\ old = read => \A col \in DOMAIN body : new[col] = body[col]]_vars

\* a partial update has answered 200 with the two fields it supplied, the
\* other fields as created, and updated_at moved on; another contact is stored
C9_Witness ==
    /\ resp.op = "update_contact"
    /\ resp.status = 200
    /\ DOMAIN resp.args.body = {"first_name", "additional_info"}
    /\ resp.body.first_name = "Bea"
    /\ resp.body.additional_info = "vip"
    /\ resp.body.last_name = "Lee"
    /\ resp.body.updated_at # resp.body.created_at
    /\ Cardinality(contacts) = 2

\* C18: an update or delete request by a user who does not own the target
\* contact ends at the look-up of the row and leaves the whole contacts table
\* as it was; a row is only changed or removed by a request of its owner.
C18_ForeignMutationNoEffect ==
    [][\A q \in Requests :
           /\ ((UpdateContactSelect(q) \/ DeleteContactSelect(q)) /\ Foreign(q))
                  => /\ inflight'[q] = Idle
                     /\ contacts' = contacts
           /\ (UpdateContactSelect(q) \/ UpdateContactSelectRepo(q)
                   \/ UpdateContactCommit(q) \/ UpdateContactRefresh(q)
                   \/ DeleteContactSelect(q) \/ DeleteContactSelectRepo(q)
                   \/ DeleteContactCommit(q))
                  => \A c \in (contacts \ contacts') \cup (contacts' \ contacts) :
                         /\ c.id = inflight[q].args.contact_id
                         /\ c.user_id = TokenUser(inflight[q].args.token)]_vars

\* an update of a contact of another user has answered 404, the owner's
\* contact being stored as created
C18_Witness ==
    /\ resp.op = "update_contact"
    /\ resp.status = 404
    /\ resp.args.body # <<>>
    /\ TokenUser(resp.args.token) # 0
    /\ \E c \in contacts : /\ c.id = resp.args.contact_id
                           /\ c.user_id # TokenUser(resp.args.token)
                           /\ c.first_name = "Ann"
                           /\ c.updated_at = c.created_at

\* C19: a created contact is stored for its creator under the id the response
\* gives, and GET /contacts/{id} by its owner answers 200 with the stored row;
\* the row stays as it is until its owner updates or deletes it; a delete by
\* the owner answers 204, after which the id is gone for good: GET answers
\* 404 and the owner's list does not show it.
C19_CreateGetDelete ==
    /\ [][\A q \in Requests :
              /\ (CreateContactRefresh(q) /\ resp'.status = 201) =>
                     \E c \in contacts :
                         /\ c.id = resp'.body.id
                         /\ c.user_id = TokenUser(resp'.args.token)
                         /\ ContactResponseSchema(c) = resp'.body
                         /\ get_contact(contacts, [id |-> c.user_id], c.id) = {c}
              /\ GetContactSelect(q) =>
                     LET own == {c \in contacts :
                                    /\ c.id = inflight[q].args.contact_id
                                    /\ c.user_id = TokenUser(inflight[q].args.token)}
                     IN  IF own # {}
                         THEN /\ resp'.status = 200
                              /\ \E c \in own : resp'.body = ContactResponseSchema(c)
                         ELSE resp'.status = 404 /\ resp'.body = <<>>
              /\ (Answers(q, "delete_contact") /\ resp'.status = 204) =>
                     LET id == inflight[q].args.contact_id
                         u == TokenUser(inflight[q].args.token)
                     IN  /\ ~\E c \in contacts' : c.id = id /\ c.user_id = u
                         /\ get_contact(contacts, [id |-> u], id) # {}
                                => /\ DeleteContactCommit(q)
                                   /\ ~HasId(contacts', id)
                                   /\ \A l \in get_contacts(contacts', MaxContacts, 0,
                                                            NoneStr, u) :
                                          \A i \in 1..Len(l) : l[i].id # id]_vars
    /\ [][/\ \A c \in contacts :
                 \/ c \in contacts'
                 \/ \E q \in Requests :
                        /\ UpdateContactCommit(q) \/ DeleteContactCommit(q)
                        /\ inflight[q].args.contact_id = c.id
                        /\ TokenUser(inflight[q].args.token) = c.user_id
          /\ \A id \in 1..contact_seq : ~HasId(contacts, id) => ~HasId(contacts', id)]_vars

\* the contact created under id 1 has been deleted, and a GET of id 1 has
\* answered 404
C19_Witness ==
    /\ resp.op = "get_contact"
    /\ resp.status = 404
    /\ resp.args.contact_id = 1
    /\ TokenUser(resp.args.token) # 0
    /\ contact_seq = 1
    /\ ~HasId(contacts, 1)

\* C26: a create request by user u has the same outcome as in the state that
\* agrees on u's contacts and holds no contact of any other user; in particular
\* creating a contact succeeds whether or not another user already has a
\* contact with that e-mail.
C26_CreateIndependentOfOthers ==
    [][\A q \in Requests :
           CreateContactInsert(q) =>
               LET u == TokenUser(inflight[q].args.token)
                   own == {c \in contacts : c.user_id = u}
                   alone == create_contact_repo(own, contact_seq, inflight[q].args.body,
                                                u, TransactionStart(inflight[q]))
               IN  (inflight'[q].pc = "create_contact_refresh") <=> alone.ok]_vars

----------------------------------------------------------------------------
(* Properties of the list query (SpecListing) *)

\* sub occurs in str, letter case ignored
RECURSIVE lower(_)
lower(str) ==
    IF str = "" THEN "" ELSE lower_char(SubSeq(str, 1, 1)) \o lower(SubSeq(str, 2, Len(str)))

Contains(str, sub) ==
    \E i \in 1..(Len(str) - Len(sub) + 1) :
        lower(SubSeq(str, i, i + Len(sub) - 1)) = lower(sub)

\* the contacts C20 lets the list of user u show for a search string
Listable(u, search) ==
    {c \in contacts :
        /\ c.user_id = u
        /\ (search # NoneStr /\ search # "")
               => \/ Contains(c.first_name, search)
                  \/ Contains(c.last_name, search)
                  \/ Contains(c.email, search)}

\* C20: the list of user u holds only contacts of u, each once, at most limit
\* of them after offset are skipped, and with a search string only contacts
\* that have it as a case-insensitive substring of first name, last name or
\* e-mail.
C20_ListOwnedFiltered ==
    [][\A q \in Requests :
           GetContactsSelect(q) =>
               LET args == inflight[q].args
                   ok == Listable(TokenUser(args.token), args.search)
                   n == Cardinality(ok) - args.offset
               IN  /\ resp'.status = 200
                   /\ \A i \in 1..Len(resp'.body) :
                          \E c \in ok : resp'.body[i] = ContactResponseSchema(c)
                   /\ \A i, j \in 1..Len(resp'.body) :
                          i # j => resp'.body[i].id # resp'.body[j].id
                   /\ Len(resp'.body) <= args.limit
                   /\ Len(resp'.body) = IF n < 0 THEN 0
                                        ELSE IF n < args.limit THEN n
                                        ELSE args.limit]_vars

----------------------------------------------------------------------------
(* Properties of the upcoming-birthdays query (SpecBirthdays) *)

\* the month/day pairs of the window [today, today + 7 days]
Window(today) == {<<AddDays(today, k)[2], AddDays(today, k)[3]>> : k \in 0..7}

\* C17: on every date the upcoming-birthdays query answers exactly the
\* caller's contacts whose birthday month/day lies in the window of today and
\* the seven days after it, also when the window runs into the next month.
C17_UpcomingBirthdaysExact ==
    [][\A q \in Requests :
           GetUpcomingBirthdaysSelect(q) =>
               resp'.body =
                   {ContactResponseSchema(c) :
                       c \in {x \in contacts :
                                 /\ x.user_id = TokenUser(inflight[q].args.token)
                                 /\ <<x.birthday[2], x.birthday[3]>>
                                        \in Window(date_today(now))}}]_vars

----------------------------------------------------------------------------
(* Properties of the avatar route (SpecAvatars) *)

\* C22: update_avatar_url stores the url as the avatar of the user with the
\* e-mail of current_user only when the user's role is admin; for another role
\* it fails with 403 and for an unknown e-mail with 404, and stores nothing.
\* No step changes a role, every registered user has role "user", and an
\* avatar only ever changes for an admin, in the commit of update_avatar_url,
\* to the URL of the upload the request has made; the commit writes that URL
\* whenever it is not the avatar the request has read.
C22_AvatarAdminOnly ==
    /\ [][\A q \in Requests :
              /\ UpdateAvatarSelect(q) =>
                     LET i == get_user_by_email(users, inflight[q].current_user.email)
                     IN  /\ users' = users
                         /\ IF i = 0
                            THEN resp'.status = 404 /\ inflight'[q] = Idle
                            ELSE IF users[i].role # "admin"
                            THEN resp'.status = 403 /\ inflight'[q] = Idle
                            ELSE /\ inflight'[q].pc = "update_avatar_select"
                                 /\ inflight'[q].url =
                                        <<"cloudinary", <<"RestApp", users[i].username>>,
                                          cloudinary'[Len(cloudinary')].version>>
              /\ UpdateAvatarCommit(q) =>
                     LET i == get_user_by_email(users, inflight[q].email)
                     IN  /\ users[i].role = "admin"
                         /\ users[i].id = TokenUser(inflight[q].args.token)
                         /\ users' \in {users, [users EXCEPT ![i].avatar = inflight[q].url]}
                         /\ inflight[q].url # inflight[q].loaded.avatar
                                => users' = [users EXCEPT ![i].avatar = inflight[q].url]]_vars
    /\ [][/\ \A i \in 1..Len(users) :
                 /\ users'[i].role = users[i].role
                 /\ users'[i].avatar # users[i].avatar
                        => /\ users[i].role = "admin"
                           /\ \E q \in Requests : UpdateAvatarCommit(q)
          /\ \A i \in (Len(users) + 1)..Len(users') : users'[i].role = "user"]_vars

\* a registered user has been refused (403), the file of the request having
\* been uploaded, after the administrator has changed the avatar
C22_Witness ==
    /\ resp.op = "update_avatar"
    /\ resp.status = 403
    /\ TokenUser(resp.args.token) # SeededAdmin[1].id
    /\ users[1].avatar = <<"cloudinary", <<"RestApp", "root">>, 1>>
    /\ Len(cloudinary) = 2
    /\ \A i \in 2..Len(users) : users[i].avatar = Gravatar(users[i].email)

\* C27: for every token that is not blacklisted and has a live cache entry, the
\* user get_current_user returns from the cache has the id, username, email,
\* avatar and confirmed values of the user the database path would return.
C27_CacheMatchesDatabase ==
    \A t \in jwts :
        (/\ ~redis_exists(redis, bl_key(t), now)
         /\ redis_get(redis, user_key(t), now) # <<>>) =>
            LET hit == User(json_loads(redis_get(redis, user_key(t), now)[1]))
                uid == get_by_username(users, t.payload.sub)
            IN  /\ uid # 0
                /\ user_data(hit) = user_data(users[uid])

----------------------------------------------------------------------------
(* Properties of the tokens reset_password accepts (SpecResetTokens) *)

\* C25: a stored password hash changes only through reset_password with a token
\* the password-reset flow issued for that user's e-mail; while no reset has
\* been requested no such token exists, so neither an access token nor an
\* e-mail confirmation token changes any stored password hash.
C25_ResetOnlyByResetToken ==
    [][\A i \in 1..Len(users) : users'[i].hash_password = users[i].hash_password]_vars

----------------------------------------------------------------------------
(* request_email (SpecRequestEmail) *)

\* C30: request_email answers with a status message for every e-mail address:
\* for an address of no user the generic "check your email" message and no
\* e-mail scheduled, for a confirmed user "already confirmed" and no e-mail
\* scheduled, and an e-mail is scheduled only for an unconfirmed user.
C30_RequestEmailAlwaysAnswers ==
    [][\A q \in Requests, e \in ResetEmails :
           RequestEmail(q, e) =>
               LET uid == get_user_by_email(users, e)
               IN  /\ resp'.op = "request_email"
                   /\ resp'.status = 200
                   /\ resp'.body.message =
                          IF uid # 0 /\ users[uid].confirmed
                          THEN "Your email is already confirmed"
                          ELSE "Check your email to confirm your address"
                   /\ resp'.body.scheduled =
                          IF uid # 0 /\ ~users[uid].confirmed THEN <<e>> ELSE <<>>]_vars

====
